---- MODULE Spec2Model ----
(***************************************************************************)
(* Model of the WACZ archive reader (harvester/wacz.py) and of the record  *)
(* generation pipeline built on it (harvester/metadata.py, records.py).    *)
(*                                                                         *)
(* Conventions                                                             *)
(*  - a Python str is a sequence of tokens (a token stands for a run of    *)
(*    characters), so that suffix tests, strip() and split() are computed; *)
(*  - None / NaN is the one-token string NaN;                              *)
(*  - a dict is a function from its keys, a DataFrame is a record          *)
(*    [cols, rows] whose rows are functions over cols;                     *)
(*  - a call returns [exc, val, self]: the exception raised ("none" when   *)
(*    it returns), the value returned and the object after the call.       *)
(***************************************************************************)
EXTENDS Integers, Sequences, FiniteSets, TLC

\* ------------------------------------------------------------------ bounds
MaxPageRows == 2
MaxExtraPageRows == 1
MaxCdxLines == 2
MaxOpens == 2
MaxRecords == 3

MaxTags == 2

MaxTextLen == 4

MaxRows == 2

MaxReturnCode == 2

\* ------------------------------------------------------- python primitives
NaN == <<"NaN">>

IsNa(v) == v = NaN

Ok(v, s) == [exc |-> "none", val |-> v, self |-> s]

Raise(e, s) == [exc |-> e, val |-> NaN, self |-> s]

Range(s) == {s[i] : i \in 1..Len(s)}

RECURSIVE Concat(_)
Concat(seqs) == IF seqs = <<>> THEN <<>> ELSE Head(seqs) \o Concat(Tail(seqs))

EndsWith(s, suffix) ==
    /\ Len(s) >= Len(suffix)
    /\ SubSeq(s, Len(s) - Len(suffix) + 1, Len(s)) = suffix

Digits == <<"0", "1", "2", "3", "4", "5", "6", "7", "8", "9">>

Ord(ch) == CHOOSE i \in 0..9 : Digits[i + 1] = ch

RECURSIVE ParseInt(_)
ParseInt(s) == IF s = <<>> THEN 0 ELSE 10 * ParseInt(SubSeq(s, 1, Len(s) - 1)) + Ord(s[Len(s)])

\* ---------------------------------------------------------------- pandas
\* the dataframe whose missing values are filled from the row above
DataFrameForwardFilled(dicts) ==
    LET cols == UNION {DOMAIN dicts[i] : i \in 1..Len(dicts)}
    IN [cols |-> cols,
        rows |-> [i \in 1..Len(dicts) |->
                    [c \in cols |-> IF c \in DOMAIN dicts[i] THEN dicts[i][c]
                                    ELSE IF i > 1 /\ c \in DOMAIN dicts[i - 1]
                                         THEN dicts[i - 1][c] ELSE NaN]]]

DataFrame(dicts) ==
    LET cols == UNION {DOMAIN dicts[i] : i \in 1..Len(dicts)}
    IN [cols |-> cols,
        rows |-> [i \in 1..Len(dicts) |->
                    [c \in cols |-> IF c \in DOMAIN dicts[i] THEN dicts[i][c] ELSE NaN]]]

\* boolean indexing: the dataframe with the rows kept
FilterDf(df, kept_rows) == [cols |-> df.cols, rows |-> kept_rows]

ConcatDf(dfs) ==
    LET cols == UNION {dfs[i].cols : i \in 1..Len(dfs)}
        Widen(r) == [c \in cols |-> IF c \in DOMAIN r THEN r[c] ELSE NaN]
        all == Concat([i \in 1..Len(dfs) |-> dfs[i].rows])
    IN [cols |-> cols, rows |-> [i \in 1..Len(all) |-> Widen(all[i])]]

\* merge(how="outer"): the left join, then the right rows that match no left row
MergeOuterOnUrl(left, right) ==
    LET cols == left.cols \cup right.cols
        Join(l, r) == [c \in cols |-> IF c \in left.cols THEN l[c] ELSE r[c]]
        Unmatched(l) == [c \in cols |-> IF c \in left.cols THEN l[c] ELSE NaN]
        RightOnly(r) == [c \in cols |-> IF c \in right.cols THEN r[c] ELSE NaN]
        Matches(l) == SelectSeq(right.rows, LAMBDA r : r["url"] = l["url"])
        RowsFor(l) == IF Matches(l) = <<>> THEN <<Unmatched(l)>>
                      ELSE [j \in 1..Len(Matches(l)) |-> Join(l, Matches(l)[j])]
        rest == SelectSeq(right.rows,
                          LAMBDA r : \A i \in 1..Len(left.rows) : left.rows[i]["url"] # r["url"])
    IN [cols |-> cols,
        rows |-> Concat([i \in 1..Len(left.rows) |-> RowsFor(left.rows[i])])
                    \o [j \in 1..Len(rest) |-> RightOnly(rest[j])]]

MergeLeftOnUrl(left, right) ==
    LET cols == left.cols \cup right.cols
        Join(l, r) == [c \in cols |-> IF c \in left.cols THEN l[c] ELSE r[c]]
        Unmatched(l) == [c \in cols |-> IF c \in left.cols THEN l[c] ELSE NaN]
        Matches(l) == SelectSeq(right.rows, LAMBDA r : r["url"] = l["url"])
        RowsFor(l) == IF Matches(l) = <<>> THEN <<Unmatched(l)>>
                      ELSE [j \in 1..Len(Matches(l)) |-> Join(l, Matches(l)[j])]
    IN [cols |-> cols,
        rows |-> Concat([i \in 1..Len(left.rows) |-> RowsFor(left.rows[i])])]

\* ------------------------------------------------------- harvester/wacz.py
PAGES_FILEPATHS == << <<"pages/pages.jsonl">>, <<"pages/extraPages.jsonl">> >>

CDX_INDEX_FILEPATH == <<"indexes/index.cdx.gz">>

WARC_DIR == <<"archive">>

TEXT_HTML == <<"text/html">>

\* WACZClient.__init__; zipfiles (the ZipFile objects created so far) and
\* reads (the entries opened by the current call) are bookkeeping.
WACZClient ==
    [_via_context_manager |-> FALSE,
     _wacz_archive |-> 0,
     _html_websites_df |-> <<>>,
     zipfiles |-> <<>>,
     reads |-> {}]

__enter__(self) == [self EXCEPT !._via_context_manager = TRUE]

\* close() that closes the ZipFile and keeps the reference to it
close_keeps_reference(self) ==
    IF self._wacz_archive # 0
    THEN [self EXCEPT !.zipfiles[self._wacz_archive] = "closed"]
    ELSE self

close(self) ==
    IF self._wacz_archive # 0
    THEN [self EXCEPT !.zipfiles[self._wacz_archive] = "closed", !._wacz_archive = 0]
    ELSE self

__exit__(self) == close(self)

\* wacz_archive without the context manager check
wacz_archive_unguarded(self) ==
    IF self._wacz_archive = 0
    THEN LET opened == [self EXCEPT !.zipfiles = Append(@, "open"),
                                    !._wacz_archive = Len(self.zipfiles) + 1]
         IN Ok(opened._wacz_archive, opened)
    ELSE Ok(self._wacz_archive, self)

wacz_archive(self) ==
    IF ~self._via_context_manager THEN Raise("ContextManagerRequiredError", self)
    ELSE IF self._wacz_archive = 0
         THEN LET opened == [self EXCEPT !.zipfiles = Append(@, "open"),
                                         !._wacz_archive = Len(self.zipfiles) + 1]
              IN Ok(opened._wacz_archive, opened)
         ELSE Ok(self._wacz_archive, self)

\* ZipFile.open(archive_filepath) on a, the outcome of self.wacz_archive, with
\* the KeyError of a missing entry turned into WaczFileDoesNotExist
ArchiveOpen(a, wacz, archive_filepath) ==
    IF a.exc # "none" THEN a
    ELSE IF a.self.zipfiles[a.val] = "closed" THEN Raise("ValueError", a.self)
    ELSE IF archive_filepath \notin DOMAIN wacz
         THEN Raise("WaczFileDoesNotExist", a.self)
         ELSE Ok(wacz[archive_filepath],
                 [a.self EXCEPT !.reads = @ \cup {archive_filepath}])

_get_archive_file_obj(self, wacz, archive_filepath) ==
    ArchiveOpen(wacz_archive(self), wacz, archive_filepath)

\* the filter without its sitemap.xml line
IsSitemapUrlHtmlOnly(url) == EndsWith(url, <<"sitemap", ".html">>)

IsSitemapUrl(url) ==
    \/ EndsWith(url, <<"sitemap", ".html">>)
    \/ EndsWith(url, <<"sitemap", ".xml">>)

\* the body of the try block of _get_pages_df for one pages file
ReadPagesFile(lines) ==
    LET data_lines == IF lines = <<>> THEN <<>> ELSE Tail(lines)
        pages_df == DataFrame(data_lines)
    IN IF "url" \notin pages_df.cols THEN [exc |-> "AttributeError", df |-> pages_df]
       ELSE [exc |-> "none",
             df |-> FilterDf(pages_df,
                             SelectSeq(pages_df.rows, LAMBDA r : ~IsSitemapUrl(r["url"])))]

RECURSIVE PagesLoop(_, _, _, _)
\* one pass of the loop over PAGES_FILEPATHS, f being the outcome of
\* self._get_archive_file_obj(pages_file) for the first of files
PagesLoopBody(f, wacz, files, all_pages_dfs) ==
    IF f.exc = "WaczFileDoesNotExist"
    THEN PagesLoop(f.self, wacz, Tail(files), all_pages_dfs)
    ELSE IF f.exc # "none" THEN f
    ELSE LET p == ReadPagesFile(f.val)
         IN IF p.exc # "none" THEN Raise(p.exc, f.self)
            ELSE PagesLoop(f.self, wacz, Tail(files), Append(all_pages_dfs, p.df))

PagesLoop(self, wacz, files, all_pages_dfs) ==
    IF files = <<>> THEN [exc |-> "none", val |-> all_pages_dfs, self |-> self]
    ELSE PagesLoopBody(_get_archive_file_obj(self, wacz, Head(files)), wacz, files,
                       all_pages_dfs)

\* after the loop, l being its outcome: no dataframe is an error
ConcatPages(l) ==
    IF l.exc # "none" THEN l
    ELSE IF l.val = <<>> THEN Raise("WaczFileDoesNotExist", l.self)
    ELSE Ok(ConcatDf(l.val), l.self)

_get_pages_df(self, wacz) == ConcatPages(PagesLoop(self, wacz, PAGES_FILEPATHS, <<>>))

\* URLs, segment files and the JSON texts that occur in the modelled archives
UrlA == <<"https://a/">>

UrlB == <<"https://b/">>

UrlSitemapXml == <<"https://a/", "sitemap", ".xml">>

UrlSitemapHtml == <<"https://b/", "news-", "sitemap", ".html">>

UrlSitemapDir == <<"https://a/", "sitemap", ".xml", "/page">>

Warc1 == <<"rec-1.warc.gz">>

Warc2 == <<"rec-2.warc.gz">>

CdxPayload(url, mime, filename, offset) ==
    [url |-> url, mime |-> mime, filename |-> filename, offset |-> offset,
     length |-> <<"4", "2">>]

\* json.loads on the JSON texts of the modelled index lines
JsonObjects ==
    [t \in {"{a html w1 5}", "{a html w1 10}", "{b html w2 7}",
            "{b png w1 5}", "{a nomime w1 5}", "{b html nofile 7}", "{}"} |->
        CASE t = "{a html w1 5}" -> CdxPayload(UrlA, TEXT_HTML, Warc1, <<"5">>)
          [] t = "{a html w1 10}" -> CdxPayload(UrlA, TEXT_HTML, Warc1, <<"1", "0">>)
          [] t = "{b html w2 7}" -> CdxPayload(UrlB, TEXT_HTML, Warc2, <<"7">>)
          [] t = "{b png w1 5}" -> CdxPayload(UrlB, <<"image/png">>, Warc1, <<"5">>)
          [] t = "{a nomime w1 5}" ->
                [url |-> UrlA, filename |-> Warc1, offset |-> <<"5">>,
                 length |-> <<"4", "2">>]
          [] t = "{b html nofile 7}" ->
                [url |-> UrlB, mime |-> TEXT_HTML, offset |-> <<"7">>,
                 length |-> <<"4", "2">>]
          [] t = "{}" -> <<>>]

json_loads(words) ==
    IF Len(words) = 1 /\ words[1] \in DOMAIN JsonObjects
    THEN [exc |-> "none", val |-> JsonObjects[words[1]]]
    ELSE [exc |-> "JSONDecodeError", val |-> <<>>]

\* a line is the sequence of its space-separated words; split(" ", 2)[2] is
\* the rest of the line after the second space.  Returns <<>> for None and
\* <<dict>> for a parsed object.
_parse_cdx_line(str_line) ==
    IF Len(str_line) < 3 THEN <<>>
    ELSE LET j == json_loads(SubSeq(str_line, 3, Len(str_line)))
         IN IF j.exc # "none" THEN <<>> ELSE <<j.val>>

\* "if cdx_line_data": None and the empty dict are falsy
Truthy(cdx_line_data) == cdx_line_data # <<>> /\ DOMAIN cdx_line_data[1] # {}

ParsedData(lines) ==
    LET kept == SelectSeq([i \in 1..Len(lines) |-> _parse_cdx_line(lines[i])], Truthy)
    IN [i \in 1..Len(kept) |-> kept[i][1]]

\* cdx_df[cdx_df.mime == "text/html"]
HtmlRows(self, cdx_df) ==
    IF "mime" \notin cdx_df.cols THEN Raise("AttributeError", self)
    ELSE Ok(FilterDf(cdx_df, SelectSeq(cdx_df.rows, LAMBDA r : r["mime"] = TEXT_HTML)),
            self)

\* the lines of the index file f parsed into a dataframe
ParseCdxFile(f) ==
    IF f.exc # "none" THEN f ELSE HtmlRows(f.self, DataFrame(ParsedData(f.val)))

_get_cdx_df(self, wacz) ==
    ParseCdxFile(_get_archive_file_obj(self, wacz, CDX_INDEX_FILEPATH))

\* reset_index() adds the old positions as a column no caller reads; left out
\* merged_df[~merged_df.filename.isna()], cached on the client
KeepWithFilename(self, merged_df) ==
    IF "filename" \notin merged_df.cols THEN Raise("AttributeError", self)
    ELSE LET df == FilterDf(merged_df,
                            SelectSeq(merged_df.rows, LAMBDA r : ~IsNa(r["filename"])))
         IN Ok(df, [self EXCEPT !._html_websites_df = <<df>>])

\* pages_df.merge(cdx_df, how="left", on="url"), c being the outcome of
\* self._get_cdx_df()
MergeWithCdx(pages_df, c) ==
    IF c.exc # "none" THEN c
    ELSE IF "url" \notin c.val.cols THEN Raise("KeyError", c.self)
    ELSE KeepWithFilename(c.self, MergeLeftOnUrl(pages_df, c.val))

\* p is the outcome of self._get_pages_df()
MergeWithPages(p, wacz) ==
    IF p.exc # "none" THEN p ELSE MergeWithCdx(p.val, _get_cdx_df(p.self, wacz))

html_websites_df(self, wacz) ==
    IF self._html_websites_df # <<>> THEN Ok(self._html_websites_df[1], self)
    ELSE MergeWithPages(_get_pages_df(self, wacz), wacz)

IsDigits(s) == s # <<>> /\ \A i \in 1..Len(s) : s[i] \in Range(Digits)

\* a segment file is a function from the byte positions at which a record
\* starts to the payload of that record
\* f.seek(offset) and the read of the record there, f being the outcome of
\* self._get_archive_file_obj(...)
_get_warc_record(f, offset) ==
    IF f.exc # "none" THEN f
    ELSE IF ParseInt(offset) \notin DOMAIN f.val THEN Raise("ArchiveLoadFailed", f.self)
    ELSE Ok(f.val[ParseInt(offset)], f.self)

get_website_content(self, wacz, warc_filename, offset) ==
    IF ~IsDigits(offset) THEN Raise("ValueError", self)
    ELSE _get_warc_record(
             _get_archive_file_obj(self, wacz, WARC_DIR \o <<"/">> \o warc_filename),
             offset)

\* the lookup that takes the first matching row when several match
ContentOfFirstRow(h, wacz, url) ==
    IF h.exc # "none" THEN h
    ELSE LET rows == SelectSeq(h.val.rows, LAMBDA r : r["url"] = url)
         IN IF Len(rows) >= 1
            THEN IF "offset" \notin h.val.cols THEN Raise("AttributeError", h.self)
                 ELSE get_website_content(h.self, wacz, rows[1]["filename"],
                                          rows[1]["offset"])
            ELSE Raise("FileNotFoundError", h.self)

\* h is the outcome of self.html_websites_df; rows is
\* html_websites_df[html_websites_df.url == url]
ContentOfUniqueRow(h, wacz, url) ==
    IF h.exc # "none" THEN h
    ELSE LET rows == SelectSeq(h.val.rows, LAMBDA r : r["url"] = url)
         IN IF Len(rows) = 1
            THEN IF "offset" \notin h.val.cols THEN Raise("AttributeError", h.self)
                 ELSE get_website_content(h.self, wacz, rows[1]["filename"],
                                          rows[1]["offset"])
            ELSE Raise("FileNotFoundError", h.self)

get_website_content_by_url(self, wacz, url) ==
    ContentOfUniqueRow(html_websites_df(self, wacz), wacz, url)

\* --------------------------------------------------- harvester/metadata.py
\* (CrawlRecordsParser in harvester/records.py has the same pipeline)

\* Python's str comparison, on strings of digits
RECURSIVE StrLess(_, _)
StrLess(a, b) ==
    IF b = <<>> THEN FALSE
    ELSE IF a = <<>> THEN TRUE
    ELSE IF Head(a) # Head(b) THEN Ord(Head(a)) < Ord(Head(b))
    ELSE StrLess(Tail(a), Tail(b))

\* one insertion of sort_values: the sort kind is quicksort, which promises no
\* order among equal keys, so ties are placed after ("stable") or before
\* ("reversed") the equal rows already there
RECURSIVE InsertSorted(_, _, _)
InsertSorted(sorted, row, ties) ==
    IF sorted = <<>> THEN <<row>>
    ELSE LET h == Head(sorted)["cdx_offset"]
             k == row["cdx_offset"]
             goes_first == StrLess(k, h) \/ (ties = "reversed" /\ k = h)
         IN IF goes_first THEN <<row>> \o sorted
            ELSE <<Head(sorted)>> \o InsertSorted(Tail(sorted), row, ties)

RECURSIVE SortRows(_, _)
SortRows(rows, ties) ==
    IF rows = <<>> THEN <<>>
    ELSE InsertSorted(SortRows(SubSeq(rows, 1, Len(rows) - 1), ties), rows[Len(rows)], ties)

\* sort_values("cdx_offset"): missing values go last, in their original order
SortValues(rows, ties) ==
    SortRows(SelectSeq(rows, LAMBDA r : ~IsNa(r["cdx_offset"])), ties)
        \o SelectSeq(rows, LAMBDA r : IsNa(r["cdx_offset"]))

\* drop_duplicates(subset="url", keep="last")
\* a drop of the duplicates that only compares a row with the next row
DropAdjacentDuplicates(rows) ==
    LET keep == {i \in 1..Len(rows) :
                    i = Len(rows) \/ rows[i + 1]["url"] # rows[i]["url"]}
        RECURSIVE Pick(_)
        Pick(i) == IF i > Len(rows) THEN <<>>
                   ELSE IF i \in keep THEN <<rows[i]>> \o Pick(i + 1)
                   ELSE Pick(i + 1)
    IN Pick(1)

\* a drop that removes only the first row that has a later duplicate
DropFirstDuplicate(rows) ==
    LET dups == {i \in 1..Len(rows) :
                    \E j \in (i + 1)..Len(rows) : rows[j]["url"] = rows[i]["url"]}
        first == CHOOSE i \in dups : \A j \in dups : i <= j
    IN IF dups = {} THEN rows
       ELSE SubSeq(rows, 1, first - 1) \o SubSeq(rows, first + 1, Len(rows))

DropDuplicatesKeepLast(rows) ==
    LET keep == {i \in 1..Len(rows) :
                    \A j \in (i + 1)..Len(rows) : rows[j]["url"] # rows[i]["url"]}
        RECURSIVE Pick(_)
        Pick(i) == IF i > Len(rows) THEN <<>>
                   ELSE IF i \in keep THEN <<rows[i]>> \o Pick(i + 1)
                   ELSE Pick(i + 1)
    IN Pick(1)

_remove_duplicate_urls(websites_metadata_df, ties) ==
    IF "cdx_offset" \notin websites_metadata_df.cols
    THEN [exc |-> "KeyError", df |-> websites_metadata_df]
    ELSE [exc |-> "none",
          df |-> [cols |-> websites_metadata_df.cols,
                  rows |-> DropDuplicatesKeepLast(
                               SortValues(websites_metadata_df.rows, ties))]]

Whitespace == {" ", "\n", "\r", "\t"}

RECURSIVE LStrip(_)
LStrip(s) == IF s # <<>> /\ Head(s) \in Whitespace THEN LStrip(Tail(s)) ELSE s

RECURSIVE RStrip(_)
RStrip(s) ==
    IF s # <<>> /\ s[Len(s)] \in Whitespace THEN RStrip(SubSeq(s, 1, Len(s) - 1)) ELSE s

Strip(s) == RStrip(LStrip(s))

StrippedLines(lines) == {Strip(lines[i]) : i \in 1..Len(lines)}

\* the list comprehension without its "if url" filter
_generate_metadata_for_deleted_urls_unfiltered(fs, current_urls_filepath, previous_urls_filepath, set_order) ==
    IF current_urls_filepath \notin DOMAIN fs
    THEN [exc |-> "FileNotFoundError", val |-> <<>>]
    ELSE IF previous_urls_filepath \notin DOMAIN fs
         THEN [exc |-> "none", val |-> <<>>]
         ELSE LET current_urls == StrippedLines(fs[current_urls_filepath])
                  previous_urls == StrippedLines(fs[previous_urls_filepath])
                  deleted_urls == SelectSeq(set_order,
                                      LAMBDA u : u \in previous_urls \ current_urls)
              IN [exc |-> "none",
                  val |-> [i \in 1..Len(deleted_urls) |->
                              [url |-> deleted_urls[i], status |-> <<"deleted">>]]]

\* fs maps the paths that can be opened to the lines of the file; set_order
\* is the order in which list(set(...)) happens to enumerate its elements
_generate_metadata_for_deleted_urls(fs, current_urls_filepath, previous_urls_filepath, set_order) ==
    IF current_urls_filepath \notin DOMAIN fs
    THEN [exc |-> "FileNotFoundError", val |-> <<>>]
    ELSE IF previous_urls_filepath \notin DOMAIN fs
         THEN [exc |-> "none", val |-> <<>>]
         ELSE LET current_urls == StrippedLines(fs[current_urls_filepath])
                  previous_urls == StrippedLines(fs[previous_urls_filepath])
                  deleted_urls == SelectSeq(set_order,
                                      LAMBDA u : u \in previous_urls \ current_urls)
                  kept == SelectSeq(deleted_urls, LAMBDA u : u # <<>>)
              IN [exc |-> "none",
                  val |-> [i \in 1..Len(kept) |->
                              [url |-> kept[i], status |-> <<"deleted">>]]]

\* an HTML document is the sequence of its top-level elements; an element is
\* [tag, attrs, children], attrs a dict from attribute names to their values.
\* BeautifulSoup(html_content, "html.parser"): the elements in document order
RECURSIVE BeautifulSoup(_)
BeautifulSoup(html_content) ==
    IF html_content = <<>> THEN <<>>
    ELSE <<Head(html_content)>> \o BeautifulSoup(Head(html_content).children)
            \o BeautifulSoup(Tail(html_content))

\* html_soup.find("meta", attrs={attr: value}): None or the first such element
find(html_soup, attr, value) ==
    LET found == SelectSeq(html_soup,
                           LAMBDA e : /\ e.tag = "meta"
                                      /\ attr \in DOMAIN e.attrs
                                      /\ e.attrs[attr] = value)
    IN IF found = <<>> THEN <<>> ELSE <<found[1]>>

\* str.replace(":", "_")
ReplaceColon(name) == [i \in 1..Len(name) |-> IF name[i] = ":" THEN "_" ELSE name[i]]

\* the str of a sequence of tokens: the keys of a dict are strs
RECURSIVE JoinTokens(_)
JoinTokens(tokens) == IF tokens = <<>> THEN "" ELSE Head(tokens) \o JoinTokens(Tail(tokens))

og_tag_properties ==
    << <<"og", ":", "site_name">>, <<"og", ":", "title">>, <<"og", ":", "locale">>,
       <<"og", ":", "type">>, <<"og", ":", "image">>, <<"og", ":", "url">>,
       <<"og", ":", "image", ":", "url">>, <<"og", ":", "image", ":", "secure_url">>,
       <<"og", ":", "image", ":", "type">>, <<"og", ":", "image", ":", "width">>,
       <<"og", ":", "image", ":", "height">>, <<"og", ":", "image", ":", "alt">>,
       <<"og", ":", "description">> >>

dc_tag_names ==
    << <<"DC.", "Title">>, <<"DC.", "Creator">>, <<"DC.", "Subject">>,
       <<"DC.", "Description">>, <<"DC.", "Publishers">>, <<"DC.", "Rights">>,
       <<"DC.", "Language">>, <<"DC.", "Identifier">>, <<"DC.", "Date.", "Created">>,
       <<"DC.", "Date.", "Modified">> >>

\* the fields of one tag with the content kept as it is written
TagFieldsUnstripped(tag, tag_name) ==
    IF tag = <<>> THEN <<>>
    ELSE IF "content" \notin DOMAIN tag[1].attrs \/ tag[1].attrs["content"] = <<>> THEN <<>>
    ELSE JoinTokens(ReplaceColon(tag_name)) :> tag[1].attrs["content"]

\* one pass of the loop over the tag names, tag being the outcome of
\* html_soup.find: the dict of the zero or one field the tag contributes
TagFields(tag, tag_name) ==
    IF tag = <<>> THEN <<>>
    ELSE IF "content" \notin DOMAIN tag[1].attrs \/ tag[1].attrs["content"] = <<>> THEN <<>>
    ELSE IF Strip(tag[1].attrs["content"]) = <<>> THEN <<>>
    ELSE JoinTokens(ReplaceColon(tag_name)) :> Strip(tag[1].attrs["content"])

\* the loop: fields[name_friendly] = content_stripped
RECURSIVE ParseMetaElements(_, _, _, _)
ParseMetaElements(html_soup, attr, tag_names, fields) ==
    IF tag_names = <<>> THEN fields
    ELSE ParseMetaElements(html_soup, attr, Tail(tag_names),
                           TagFields(find(html_soup, attr, Head(tag_names)), Head(tag_names))
                               @@ fields)

_parse_open_graph_meta_elements(html_soup) ==
    ParseMetaElements(html_soup, "property", og_tag_properties, <<>>)

_parse_dublin_core_meta_elements(html_soup) ==
    ParseMetaElements(html_soup, "name", dc_tag_names, <<>>)

\* tags.update(...): the later dict wins
ParseBothFamilies(html_soup) ==
    _parse_dublin_core_meta_elements(html_soup) @@ _parse_open_graph_meta_elements(html_soup)

get_html_content_metadata(html_content) == ParseBothFamilies(BeautifulSoup(html_content))

\* the replace that leaves the tabs
_remove_fulltext_whitespace_keeps_tabs(fulltext) ==
    [i \in 1..Len(fulltext) |-> IF fulltext[i] \in {"\n", "\r"} THEN " " ELSE fulltext[i]]

\* a whitespace character is a token of its own
_remove_fulltext_whitespace(fulltext) ==
    [i \in 1..Len(fulltext) |->
        IF fulltext[i] \in {"\n", "\r", "\t"} THEN " " ELSE fulltext[i]]

FULLTEXT_KEYWORD_STOPWORDS ==
    {<<"Skip", " ", "to", " ", "Main">>, <<"Main", " ", "Content">>, <<"MIT">>, <<"Main">>,
     <<"Content">>, <<"Skip">>, <<"Libraries">>, <<"Open">>, <<"Library">>}

\* str.lower() on the words of the modelled texts
LowerWord(word) ==
    CASE word = "MIT" -> "mit"
      [] word = "Main" -> "main"
      [] word = "Content" -> "content"
      [] word = "Skip" -> "skip"
      [] word = "Libraries" -> "libraries"
      [] word = "Open" -> "open"
      [] word = "Library" -> "library"
      [] word = "Hello" -> "hello"
      [] word = "XML" -> "xml"
      [] word = "Jsonl" -> "jsonl"
      [] word = "TSV" -> "tsv"
      [] word = "Csv" -> "csv"
      [] OTHER -> word

Lower(s) == [i \in 1..Len(s) |-> LowerWord(s[i])]

\* yake.KeywordExtractor(): the extractor with the stopwords of its language
KeywordExtractor == [stopword_set |-> {<<"the">>, <<"to">>}]

\* the property that builds an extractor at every access
keyword_extractor_rebuilt(self) ==
    LET extractor == [stopword_set |-> KeywordExtractor.stopword_set
                          \cup {Lower(Strip(w)) : w \in FULLTEXT_KEYWORD_STOPWORDS}]
    IN Ok(extractor, [self EXCEPT !._keyword_extractor = <<extractor>>,
                                  !.extractors_built = @ + 1])

\* extractors_built counts the KeywordExtractor objects built (bookkeeping)
keyword_extractor(self) ==
    IF self._keyword_extractor = <<>>
    THEN LET extractor == [stopword_set |-> KeywordExtractor.stopword_set
                               \cup {Lower(Strip(w)) : w \in FULLTEXT_KEYWORD_STOPWORDS}]
         IN Ok(extractor, [self EXCEPT !._keyword_extractor = <<extractor>>,
                                       !.extractors_built = @ + 1])
    ELSE Ok(self._keyword_extractor[1], self)

\* KeywordExtractor.extract_keywords(text): the (keyword, score) pairs; here a
\* keyword is a longest run of words that are no stopwords, with single
\* spaces between them, and the score is the number of its words
RECURSIVE ExtractLoop(_, _, _, _)
ExtractLoop(stopword_set, text, run, keywords) ==
    LET flushed == IF run = <<>> THEN keywords
                   ELSE Append(keywords, <<run, Digits[(Len(run) + 1) \div 2 + 1]>>)
    IN IF text = <<>> THEN flushed
       ELSE IF Head(text) = " " THEN ExtractLoop(stopword_set, Tail(text), run, keywords)
       ELSE IF Head(text) \in Whitespace \/ <<LowerWord(Head(text))>> \in stopword_set
            THEN ExtractLoop(stopword_set, Tail(text), <<>>, flushed)
            ELSE ExtractLoop(stopword_set, Tail(text),
                             IF run = <<>> THEN <<Head(text)>> ELSE run \o <<" ", Head(text)>>,
                             keywords)

extract_keywords(extractor, text) == ExtractLoop(extractor.stopword_set, text, <<>>, <<>>)

\* ",".join(words)
RECURSIVE JoinWithComma(_)
JoinWithComma(words) ==
    IF words = <<>> THEN <<>>
    ELSE IF Len(words) = 1 THEN words[1]
    ELSE words[1] \o <<",">> \o JoinWithComma(Tail(words))

\* the join that keeps the scores
JoinKeywordsAndScores(keywords) ==
    JoinWithComma([i \in 1..Len(keywords) |-> keywords[i][1] \o <<":", keywords[i][2]>>])

\* ",".join([keyword for keyword, _score in keywords])
JoinKeywords(keywords) == JoinWithComma([i \in 1..Len(keywords) |-> keywords[i][1]])

\* e is the outcome of self.keyword_extractor
KeywordsOf(e, fulltext) == Ok(JoinKeywords(extract_keywords(e.val, fulltext)), e.self)

_generate_fulltext_keywords(self, fulltext) == KeywordsOf(keyword_extractor(self), fulltext)

\* k is the outcome of self._generate_fulltext_keywords(fulltext)
FieldsWithKeywords(k, fulltext, include_fulltext) ==
    Ok([fulltext |-> IF include_fulltext THEN fulltext ELSE NaN, fulltext_keywords |-> k.val],
       k.self)

\* the fields of a fulltext with its whitespace removed
FulltextFields(self, fulltext, include_fulltext, extract_fulltext_keywords) ==
    IF extract_fulltext_keywords
    THEN FieldsWithKeywords(_generate_fulltext_keywords(self, fulltext), fulltext,
                            include_fulltext)
    ELSE Ok([fulltext |-> IF include_fulltext THEN fulltext ELSE NaN,
             fulltext_keywords |-> NaN], self)

parse_fulltext_fields(self, raw_fulltext, include_fulltext, extract_fulltext_keywords) ==
    IF ~(include_fulltext \/ extract_fulltext_keywords) \/ IsNa(raw_fulltext)
    THEN Ok([fulltext |-> NaN, fulltext_keywords |-> NaN], self)
    ELSE FulltextFields(self, _remove_fulltext_whitespace(raw_fulltext), include_fulltext,
                        extract_fulltext_keywords)

RowFields == {"url", "filename", "title", "offset", "length"}

\* the outcome r of a call on the client, within a call on the parser self
WithParser(r, self) == [exc |-> r.exc, val |-> r.val, self |-> r.self, parser |-> self]

\* "data already known from WACZ files"
RowMetadata(row) ==
    [url |-> row["url"],
     status |-> <<"active">>,
     cdx_warc_filename |-> row["filename"],
     cdx_title |-> row["title"],
     cdx_offset |-> row["offset"],
     cdx_length |-> row["length"]]

\* the loop over html_websites_df.itertuples()
RECURSIVE RowsLoop(_, _, _, _, _, _, _, _)
\* the loop that puts every record in front of the list
RowsLoopPrepend(fulltext_fields, html_content, wacz, cols, rows, all_metadata, include_fulltext, extract_fulltext_keywords) ==
    RowsLoop(html_content.self, wacz, cols, Tail(rows),
             <<fulltext_fields.val @@ get_html_content_metadata(html_content.val)
                   @@ RowMetadata(Head(rows))>> \o all_metadata,
             fulltext_fields.self, include_fulltext, extract_fulltext_keywords)

\* the two metadata.update calls and all_metadata.append, fulltext_fields
\* being the outcome of self.parse_fulltext_fields(row.text, ...)
RowsLoopAppend(fulltext_fields, html_content, wacz, cols, rows, all_metadata, include_fulltext, extract_fulltext_keywords) ==
    RowsLoop(html_content.self, wacz, cols, Tail(rows),
             Append(all_metadata,
                    fulltext_fields.val @@ get_html_content_metadata(html_content.val)
                        @@ RowMetadata(Head(rows))),
             fulltext_fields.self, include_fulltext, extract_fulltext_keywords)

\* the pass that leaves out a row whose content cannot be read
RowsLoopBodySkippingRow(html_content, wacz, cols, rows, all_metadata, self, include_fulltext, extract_fulltext_keywords) ==
    IF html_content.exc # "none"
    THEN RowsLoop(html_content.self, wacz, cols, Tail(rows), all_metadata, self,
                  include_fulltext, extract_fulltext_keywords)
    ELSE RowsLoopAppend(parse_fulltext_fields(self, Head(rows)["text"], include_fulltext,
                                              extract_fulltext_keywords),
                        html_content, wacz, cols, rows, all_metadata, include_fulltext,
                        extract_fulltext_keywords)

\* one pass of the loop, html_content being the outcome of
\* wacz_client.get_website_content(row.filename, row.offset) for the first row
RowsLoopBody(html_content, wacz, cols, rows, all_metadata, self, include_fulltext, extract_fulltext_keywords) ==
    IF html_content.exc # "none" THEN WithParser(html_content, self)
    ELSE IF "text" \notin cols THEN WithParser(Raise("AttributeError", html_content.self), self)
    ELSE RowsLoopAppend(parse_fulltext_fields(self, Head(rows)["text"], include_fulltext,
                                              extract_fulltext_keywords),
                        html_content, wacz, cols, rows, all_metadata, include_fulltext,
                        extract_fulltext_keywords)

RowsLoop(wacz_client, wacz, cols, rows, all_metadata, self, include_fulltext, extract_fulltext_keywords) ==
    IF rows = <<>> THEN WithParser(Ok(all_metadata, wacz_client), self)
    ELSE IF ~(RowFields \subseteq cols)
         THEN WithParser(Raise("AttributeError", wacz_client), self)
    ELSE RowsLoopBody(get_website_content(wacz_client, wacz, Head(rows)["filename"],
                                          Head(rows)["offset"]),
                      wacz, cols, rows, all_metadata, self, include_fulltext,
                      extract_fulltext_keywords)

\* the with statement: __exit__ runs however the body ends
\* a session that closes the client only when the body returns
WithExitOnSuccess(body) ==
    IF body.exc = "none" THEN [body EXCEPT !.self = __exit__(body.self)] ELSE body

WithExit(body) == [body EXCEPT !.self = __exit__(body.self)]

\* the body of "with WACZClient(self.wacz_filepath) as wacz_client"
\* h is the outcome of wacz_client.html_websites_df
IterTuples(h, wacz, self, include_fulltext, extract_fulltext_keywords) ==
    IF h.exc # "none" THEN WithParser(h, self)
    ELSE RowsLoop(h.self, wacz, h.val.cols, h.val.rows, <<>>, self, include_fulltext,
                  extract_fulltext_keywords)

CrawlSession(wacz, self, include_fulltext, extract_fulltext_keywords) ==
    IterTuples(html_websites_df(__enter__(WACZClient), wacz), wacz, self, include_fulltext,
               extract_fulltext_keywords)

CrawlMetadataParser ==
    [_websites_metadata |-> <<>>, _keyword_extractor |-> <<>>, extractors_built |-> 0]

\* returns [exc, val, self, wacz_client, all_metadata]: wacz_client is the
\* client of the call's with block as the call leaves it, all_metadata the
\* list the with block built (NaN when it built none)
\* a call of generate_metadata that raises e
Failed(crawl, e) ==
    [exc |-> e, val |-> <<>>, self |-> crawl.parser, wacz_client |-> crawl.self,
     all_metadata |-> IF crawl.exc = "none" THEN crawl.val ELSE NaN]

\* d is the outcome of self._remove_duplicate_urls(websites_metadata_df)
CacheRecords(crawl, d) ==
    IF d.exc # "none" THEN Failed(crawl, d.exc)
    ELSE [exc |-> "none", val |-> <<d.df>>,
          self |-> [crawl.parser EXCEPT !._websites_metadata = <<d.df>>],
          wacz_client |-> crawl.self, all_metadata |-> crawl.val]

\* crawl is the outcome of the with block, deleted that of the deleted URLs
CombineRecords(crawl, deleted, ties) ==
    IF crawl.exc # "none" THEN Failed(crawl, crawl.exc)
    ELSE IF deleted.exc # "none" THEN Failed(crawl, deleted.exc)
    ELSE CacheRecords(crawl, _remove_duplicate_urls(DataFrame(crawl.val \o deleted.val), ties))

\* "if urls_file and previous_sitemap_urls_file"
DeletedRecords(fs, urls_file, previous_sitemap_urls_file, set_order) ==
    IF urls_file # <<>> /\ previous_sitemap_urls_file # <<>>
    THEN _generate_metadata_for_deleted_urls(fs, urls_file, previous_sitemap_urls_file,
                                             set_order)
    ELSE [exc |-> "none", val |-> <<>>]

\* the call that generates the records whatever the parser holds
generate_metadata_uncached(self, wacz, fs, urls_file, previous_sitemap_urls_file, set_order, ties, include_fulltext, extract_fulltext_keywords) ==
    CombineRecords(WithExit(CrawlSession(wacz, self, include_fulltext,
                                         extract_fulltext_keywords)),
                   DeletedRecords(fs, urls_file, previous_sitemap_urls_file, set_order),
                   ties)

generate_metadata(self, wacz, fs, urls_file, previous_sitemap_urls_file, set_order, ties, include_fulltext, extract_fulltext_keywords) ==
    IF self._websites_metadata # <<>>
    THEN [exc |-> "none", val |-> self._websites_metadata, self |-> self,
          wacz_client |-> WACZClient, all_metadata |-> NaN]
    ELSE CombineRecords(WithExit(CrawlSession(wacz, self, include_fulltext,
                                              extract_fulltext_keywords)),
                        DeletedRecords(fs, urls_file, previous_sitemap_urls_file, set_order),
                        ties)

\* ------------------------------------------------------------ serializers
\* a CrawlMetadataRecords holds metadata_df, here a dataframe that also has
\* its columns in their order (columns); bytes are sequences of tokens
RECURSIVE Flatten(_)
Flatten(seqs) == IF seqs = <<>> THEN <<>> ELSE Head(seqs) \o Flatten(Tail(seqs))

\* str(value)
Str(value) == IF IsNa(value) THEN <<"None">> ELSE value

\* ElementTree's escaping of the text of an element
EscapeCdata(text) ==
    [i \in 1..Len(text) |-> CASE text[i] = "&" -> "&amp;"
                               [] text[i] = "<" -> "&lt;"
                               [] text[i] = ">" -> "&gt;"
                               [] OTHER -> text[i]]

\* the serialization of an element named tag with the elements or text inner
XmlElement(tag, inner) ==
    IF inner = <<>> THEN <<"<", tag, " />">> ELSE <<"<", tag, ">">> \o inner \o <<"</", tag, ">">>

\* the cell whose text is the value itself, so that a null cell is empty
XmlCellOfValue(row, col) == XmlElement(col, EscapeCdata(IF IsNa(row[col]) THEN <<>> ELSE row[col]))

\* cell = ET.Element(col); cell.text = str(row[col])
XmlCell(row, col) == XmlElement(col, EscapeCdata(Str(row[col])))

to_xml(metadata_df) ==
    XmlElement("records",
        Flatten([i \in 1..Len(metadata_df.rows) |->
            XmlElement("record",
                Flatten([c \in 1..Len(metadata_df.columns) |->
                            XmlCell(metadata_df.rows[i], metadata_df.columns[c])]))]))

\* json.dumps of a string
JsonString(text) ==
    <<"\"">> \o [i \in 1..Len(text) |-> CASE text[i] = "\"" -> "\\\""
                                           [] text[i] = "\\" -> "\\\\"
                                           [] text[i] = "\n" -> "\\n"
                                           [] text[i] = "\t" -> "\\t"
                                           [] OTHER -> text[i]] \o <<"\"">>

\* the value written as the string of its str()
JsonValueOfStr(value) == JsonString(Str(value))

\* json.dumps of a value of a record: None is null
JsonValue(value) == IF IsNa(value) THEN <<"null">> ELSE JsonString(value)

\* ", ".join of the members
RECURSIVE JoinWith(_, _)
JoinWith(sep, parts) ==
    IF parts = <<>> THEN <<>>
    ELSE IF Len(parts) = 1 THEN parts[1]
    ELSE parts[1] \o sep \o JoinWith(sep, Tail(parts))

\* writer.write(row.to_dict()): one line of JSON
JsonLine(row, columns) ==
    <<"{">> \o JoinWith(<<", ">>, [c \in 1..Len(columns) |->
                                      JsonString(<<columns[c]>>) \o <<": ">>
                                          \o JsonValue(row[columns[c]])])
        \o <<"}", "\n">>

to_jsonl(metadata_df) ==
    Flatten([i \in 1..Len(metadata_df.rows) |-> JsonLine(metadata_df.rows[i], metadata_df.columns)])

\* a field of DataFrame.to_csv: empty for a missing value, quoted when it
\* holds the separator, a quote or a line break
CsvField(value, sep) ==
    IF IsNa(value) THEN <<>>
    ELSE IF \E i \in 1..Len(value) : value[i] \in {sep, "\"", "\n", "\r"}
         THEN <<"\"">> \o Flatten([i \in 1..Len(value) |->
                                       IF value[i] = "\"" THEN <<"\"", "\"">> ELSE <<value[i]>>])
                  \o <<"\"">>
         ELSE value

\* DataFrame.to_csv(sep=sep, index=False): the header row and a row per record
to_csv(metadata_df, sep) ==
    JoinWith(<<sep>>, [c \in 1..Len(metadata_df.columns) |-> <<metadata_df.columns[c]>>])
        \o <<"\n">>
        \o Flatten([i \in 1..Len(metadata_df.rows) |->
               JoinWith(<<sep>>, [c \in 1..Len(metadata_df.columns) |->
                                    CsvField(metadata_df.rows[i][metadata_df.columns[c]], sep)])
                   \o <<"\n">>])

\* filepath.split(".")[-1]: the tokens after the last "." of filepath, all of
\* them when it has none
LastPart(filepath) ==
    LET dots == {i \in 1..Len(filepath) : filepath[i] = "."}
    IN IF dots = {} THEN filepath
       ELSE SubSeq(filepath, (CHOOSE i \in dots : \A j \in dots : j <= i) + 1, Len(filepath))

\* a write call: the exception it raises, the streams smart_open.open gave it
\* (path, mode, bytes written into the stream) and the files written by path
\* without a stream (to_csv)
WriteOutcome(exc, filepath, written, files) ==
    [exc |-> exc, val |-> NaN,
     streams |-> IF exc = "none" THEN <<[filepath |-> filepath, mode |-> "wb",
                                         written |-> written]>> ELSE <<>>,
     files |-> files]

\* the write that takes an unknown format for XML
write_defaulting_to_xml(metadata_df, filepath) ==
    LET file_format == Lower(Strip(LastPart(filepath)))
    IN IF file_format = <<"jsonl">> THEN WriteOutcome("none", filepath, to_jsonl(metadata_df), <<>>)
       ELSE IF file_format \in {<<"tsv">>, <<"csv">>}
            THEN WriteOutcome("none", filepath, <<>>,
                              <<[filepath |-> filepath,
                                 data |-> to_csv(metadata_df,
                                                 IF file_format = <<"tsv">> THEN "\t" ELSE ",")]>>)
       ELSE WriteOutcome("none", filepath, to_xml(metadata_df), <<>>)

write(metadata_df, filepath) ==
    LET file_format == Lower(Strip(LastPart(filepath)))
    IN IF file_format = <<"xml">> THEN WriteOutcome("none", filepath, to_xml(metadata_df), <<>>)
       ELSE IF file_format = <<"jsonl">>
            THEN WriteOutcome("none", filepath, to_jsonl(metadata_df), <<>>)
       ELSE IF file_format = <<"tsv">>
            THEN WriteOutcome("none", filepath, <<>>,
                              <<[filepath |-> filepath, data |-> to_csv(metadata_df, "\t")]>>)
       ELSE IF file_format = <<"csv">>
            THEN WriteOutcome("none", filepath, <<>>,
                              <<[filepath |-> filepath, data |-> to_csv(metadata_df, ",")]>>)
       ELSE WriteOutcome("NotImplementedError", filepath, <<>>, <<>>)

\* ---------------------------------------------------------------- crawler
\* the file system is a function from paths to contents and a directory is a
\* path of its own; environ is a function from the names of the variables
\* that are set to their values
DOCKERENV == <<"/.dockerenv">>

DOCKER_CONTAINER_CONFIG_YAML_FILEPATH == <<"/browsertrix-harvester/crawl-config.yaml">>

\* Crawler.__init__
Crawler(crawl_name, config_yaml_filepath) ==
    [crawl_name |-> crawl_name, config_yaml_filepath |-> config_yaml_filepath,
     sitemap_from_date |-> <<>>, num_workers |-> <<"4">>, btrix_args_json |-> <<>>]

crawl_output_dir(self) == <<"/crawls/collections/">> \o self.crawl_name

wacz_filepath(self) == crawl_output_dir(self) \o <<"/">> \o self.crawl_name \o <<".wacz">>

\* the outcome of crawl: the exception, the values returned (one: the return
\* code), the file system it leaves, the steps it took and the lines it logged
CrawlOutcome(exc, val, fs, steps, logged) ==
    [exc |-> exc, val |-> val, fs |-> fs, steps |-> steps, logged |-> logged]

\* the check that asks for both signs of a container
require_container_with_both(fs, environ, func) ==
    IF DOCKERENV \notin DOMAIN fs \/ "AWS_EXECUTION_ENV" \notin DOMAIN environ
    THEN CrawlOutcome("RequiresContainerContextError", NaN, fs, <<>>, <<>>)
    ELSE func

\* the wrapper of the decorator, func being the outcome of the wrapped method
require_container(fs, environ, func) ==
    IF DOCKERENV \notin DOMAIN fs /\ "AWS_EXECUTION_ENV" \notin DOMAIN environ
    THEN CrawlOutcome("RequiresContainerContextError", NaN, fs, <<>>, <<>>)
    ELSE func

_copy_config_yaml_local(self, fs) ==
    IF self.config_yaml_filepath \notin DOMAIN fs THEN [exc |-> "ConfigYamlError", fs |-> fs]
    ELSE [exc |-> "none",
          fs |-> (DOCKER_CONTAINER_CONFIG_YAML_FILEPATH :> fs[self.config_yaml_filepath]) @@ fs]

\* path is dir or is below it
IsUnder(path, dir) == Len(path) >= Len(dir) /\ SubSeq(path, 1, Len(dir)) = dir

\* shutil.rmtree
rmtree(fs, dir) == [p \in {q \in DOMAIN fs : ~IsUnder(q, dir)} |-> fs[p]]

_remove_previous_crawl(self, fs) ==
    IF crawl_output_dir(self) \in DOMAIN fs
    THEN [steps |-> <<"_remove_previous_crawl", "rmtree">>, fs |-> rmtree(fs, crawl_output_dir(self))]
    ELSE [steps |-> <<"_remove_previous_crawl">>, fs |-> fs]

\* the command of a crawler without sitemap_from_date and btrix_args_json
_build_subprocess_command(self) ==
    <<"crawl", "--useSitemap", "--collection">> \o self.crawl_name
        \o <<"--config">> \o DOCKER_CONTAINER_CONFIG_YAML_FILEPATH
        \o <<"--logging", "stats", "--workers">> \o self.num_workers

\* the stripped lines of a stream that are not empty, in their order
StrippedLinesOf(lines) ==
    SelectSeq([i \in 1..Len(lines) |-> Strip(lines[i])], LAMBDA line : line # <<>>)

\* the lines logger.debug is given: those of stdout, then those of stderr
_handle_subprocess_logging(process) ==
    StrippedLinesOf(process.stdout) \o StrippedLinesOf(process.stderr)

\* the crawl of the browsertrix process started with cmd: it makes the
\* collection directory and, unless it fails to, the WACZ file
Popen(cmd, self, fs, process) ==
    (IF process.wacz = <<>> THEN <<>> ELSE wacz_filepath(self) :> process.wacz[1])
        @@ (crawl_output_dir(self) :> <<"dir">>) @@ fs

\* the check that lets a crawl that exited with 0 return
CheckWaczOfFailedCrawl(self, fs, steps, process) ==
    IF wacz_filepath(self) \notin DOMAIN fs /\ process.returncode # 0
    THEN CrawlOutcome("WaczFileDoesNotExist", NaN, fs, Append(steps, "os.path.exists"),
                      _handle_subprocess_logging(process))
    ELSE CrawlOutcome("none", <<process.returncode>>, fs, Append(steps, "os.path.exists"),
                      _handle_subprocess_logging(process))

\* "if not os.path.exists(self.wacz_filepath)" and "return return_code", fs
\* being the file system the process has left
CheckWacz(self, fs, steps, process) ==
    IF wacz_filepath(self) \notin DOMAIN fs
    THEN CrawlOutcome("WaczFileDoesNotExist", NaN, fs, Append(steps, "os.path.exists"),
                      _handle_subprocess_logging(process))
    ELSE CrawlOutcome("none", <<process.returncode>>, fs, Append(steps, "os.path.exists"),
                      _handle_subprocess_logging(process))

\* the with block of subprocess.Popen, removed being the outcome of
\* self._remove_previous_crawl()
RunCrawl(self, removed, process) ==
    CheckWacz(self, Popen(_build_subprocess_command(self), self, removed.fs, process),
              <<"_copy_config_yaml_local">> \o removed.steps
                  \o <<"_build_subprocess_command", "Popen", "_handle_subprocess_logging",
                       "wait">>,
              process)

\* copied is the outcome of self._copy_config_yaml_local()
CrawlSteps(self, copied, process) ==
    IF copied.exc # "none"
    THEN CrawlOutcome(copied.exc, NaN, copied.fs, <<"_copy_config_yaml_local">>, <<>>)
    ELSE RunCrawl(self, _remove_previous_crawl(self, copied.fs), process)

crawl(self, fs, environ, process) ==
    require_container(fs, environ, CrawlSteps(self, _copy_config_yaml_local(self, fs), process))

\* --------------------------------------------------------------- sitemaps
\* a sitemap URL is <<scheme, netloc, path>>, a date string one token, a
\* datetime the position of its day in Calendar, and an optional date string
\* <<>> (None) or <<date>>
Calendar == <<"2025-01-15", "2025-02-01", "2025-02-15", "2025-03-01", "2025-03-15">>

\* dateutil_parse(date).replace(tzinfo=UTC)
dateutil_parse(date) == CHOOSE day \in 1..Len(Calendar) : Calendar[day] = date

\* usp's SitemapPage: last_modified is <<>> (None) when the sitemap gives
\* none, else <<datetime>>
SitemapPage(url, last_modified) == [url |-> url, last_modified |-> last_modified]

\* the pages of the sitemap files of the modelled sites
SitemapFile(root, path) ==
    IF root = <<"https://", "example.com">> /\ path = "/sitemap.xml"
    THEN <<SitemapPage(<<"https://example.com/page1">>, <<dateutil_parse("2025-01-15")>>),
           SitemapPage(<<"https://example.com/page2">>, <<dateutil_parse("2025-02-15")>>),
           SitemapPage(<<"https://example.com/page3">>, <<dateutil_parse("2025-03-15")>>)>>
    ELSE IF root = <<"https://", "example.com">> /\ path = "/news/sitemap.xml"
    THEN <<SitemapPage(<<"https://example.com/page3">>, <<dateutil_parse("2025-03-15")>>),
           SitemapPage(<<"https://example.com/page1">>, <<dateutil_parse("2025-01-15")>>)>>
    ELSE IF root = <<"https://", "other.com">> /\ path = "/sitemap.xml"
    THEN <<SitemapPage(<<"https://other.com/">>, <<>>)>>
    ELSE <<>>

\* tree.all_pages() of sitemap_tree_for_homepage(root, extra_known_paths=paths)
sitemap_tree_for_homepage(root, paths) ==
    UNION {Range(SitemapFile(root, path)) : path \in paths}

\* SitemapsParser.__init__
SitemapsParser(sitemaps, sitemap_from_date, sitemap_to_date) ==
    [sitemaps |-> sitemaps, sitemap_from_date |-> sitemap_from_date,
     sitemap_to_date |-> sitemap_to_date, _pages |-> <<>>]

\* urlparse: (scheme://netloc, path)
_parse_sitemap_components(sitemap) == <<SubSeq(sitemap, 1, 2), sitemap[3]>>

\* root_to_paths
RootToPaths(sitemaps) ==
    [root \in {_parse_sitemap_components(sitemaps[i])[1] : i \in 1..Len(sitemaps)} |->
        {_parse_sitemap_components(sitemaps[i])[2] :
            i \in {k \in 1..Len(sitemaps) : _parse_sitemap_components(sitemaps[k])[1] = root}}]

\* set(_pages)
DiscoveredPages(sitemaps) ==
    UNION {sitemap_tree_for_homepage(root, RootToPaths(sitemaps)[root]) :
              root \in DOMAIN RootToPaths(sitemaps)}

\* the lists list(set) can be: the members of the set in any order
ListsOf(set) == {list \in [1..Cardinality(set) -> set] : Range(list) = set}

\* the parse that keeps every page of every sitemap
parse_keeping_duplicates(self, listing) ==
    [self EXCEPT !._pages =
        <<Flatten([i \in 1..Len(self.sitemaps) |->
              SitemapFile(_parse_sitemap_components(self.sitemaps[i])[1],
                          _parse_sitemap_components(self.sitemaps[i])[2])])>>]

\* listing is list(set(_pages))
parse(self, listing) == [self EXCEPT !._pages = <<listing>>]

\* "x or y" of two optional strings
Or(x, y) == IF x # <<>> THEN x ELSE y

\* the loop over self._pages
FilteredPages(self, sitemap_from_date, sitemap_to_date) ==
    IF (sitemap_from_date # <<>> \/ sitemap_to_date # <<>>)
          /\ \E i \in 1..Len(self._pages[1]) : self._pages[1][i].last_modified = <<>>
    THEN [exc |-> "TypeError", val |-> NaN, self |-> self]
    ELSE [exc |-> "none",
          val |-> SelectSeq(self._pages[1],
                            LAMBDA page :
                                /\ sitemap_from_date # <<>> =>
                                      ~(page.last_modified[1] < dateutil_parse(sitemap_from_date[1]))
                                /\ sitemap_to_date # <<>> =>
                                      ~(page.last_modified[1] >= dateutil_parse(sitemap_to_date[1]))),
          self |-> self]

pages(self, sitemap_from_date, sitemap_to_date, listing) ==
    FilteredPages(IF self._pages = <<>> THEN parse(self, listing) ELSE self,
                  Or(sitemap_from_date, self.sitemap_from_date),
                  Or(sitemap_to_date, self.sitemap_to_date))

\* ---------------------------------------------------------------- harvest
CRAWL_SITEMAP_URLS_FILEPATH == <<"/tmp/urls.txt">>

ALL_SITEMAP_URLS_FILEPATH == <<"/tmp/urls-all.txt">>

\* SitemapsParser.write_urls: smart_open.open(filepath, "w") opens the file,
\* then a line is written for each page of listed, the outcome of self.pages
WrittenUrls(fs, filepath, listed) ==
    [exc |-> listed.exc, self |-> listed.self,
     fs |-> (filepath :> (IF listed.exc # "none" THEN <<>>
                          ELSE [i \in 1..Len(listed.val) |-> listed.val[i].url \o <<"\n">>]))
                @@ fs]

write_urls(self, fs, filepath, sitemap_from_date, sitemap_to_date, listing) ==
    WrittenUrls(fs, filepath, pages(self, sitemap_from_date, sitemap_to_date, listing))

\* the outcome of harvest: the exception that ends it, the file system it
\* leaves, the calls it made in their order (those of crawl() included) and
\* the errors it logged
HarvestOutcome(exc, fs, events, logged) ==
    [exc |-> exc, fs |-> fs, events |-> events, logged |-> logged]

\* "if sitemap_urls_output_file"
SitemapUrlsOutput(options, fs, events) ==
    IF options.sitemap_urls_output_file = <<>> THEN HarvestOutcome("none", fs, events, <<>>)
    ELSE IF ALL_SITEMAP_URLS_FILEPATH \notin DOMAIN fs
         THEN HarvestOutcome("none", fs, events, <<"Cannot write sitemap URLs">>)
    ELSE HarvestOutcome("none",
                        (options.sitemap_urls_output_file :> fs[ALL_SITEMAP_URLS_FILEPATH]) @@ fs,
                        Append(events, "sitemap_urls_out"), <<>>)

\* the columns of a generated dataframe: the keys every record starts with in
\* the order of the dict, then the other columns in one of their orders
ColumnsOf(cols) ==
    SelectSeq(<<"url", "status", "cdx_warc_filename", "cdx_title", "cdx_offset", "cdx_length">>,
              LAMBDA c : c \in cols)
        \o (CHOOSE list \in ListsOf(cols \ {"url", "status", "cdx_warc_filename", "cdx_title",
                                            "cdx_offset", "cdx_length"}) : TRUE)

\* the file a write call leaves at its path
FileWritten(written) ==
    IF written.files # <<>> THEN written.files[1].filepath :> written.files[1].data
    ELSE written.streams[1].filepath :> written.streams[1].written

\* written is the outcome of crawl_metadata_records.write(metadata_output_file)
MetadataWritten(options, fs, events, written) ==
    IF written.exc # "none" THEN HarvestOutcome(written.exc, fs, Append(events, "write"), <<>>)
    ELSE SitemapUrlsOutput(options, FileWritten(written) @@ fs, Append(events, "write"))

\* generated is the outcome of parser.generate_metadata(...)
MetadataGenerated(options, fs, events, generated) ==
    IF generated.exc # "none"
    THEN HarvestOutcome(generated.exc, fs, Append(events, "generate_metadata"), <<>>)
    ELSE MetadataWritten(options, fs, Append(events, "generate_metadata"),
                         write([cols |-> generated.val[1].cols, rows |-> generated.val[1].rows,
                                columns |-> ColumnsOf(generated.val[1].cols)],
                               options.metadata_output_file))

\* "if metadata_output_file"; wacz is the archive at crawler.wacz_filepath
MetadataStage(options, wacz, fs, events, set_order, ties) ==
    IF options.metadata_output_file = <<>> THEN SitemapUrlsOutput(options, fs, events)
    ELSE MetadataGenerated(options, fs, events,
                           generate_metadata(CrawlMetadataParser, wacz, fs,
                                             ALL_SITEMAP_URLS_FILEPATH,
                                             options.previous_sitemap_urls_file, set_order, ties,
                                             options.include_fulltext,
                                             options.extract_fulltext_keywords))

\* "if wacz_output_file"
WaczCopy(options, wacz, crawler, fs, events, set_order, ties) ==
    IF options.wacz_output_file = <<>>
    THEN MetadataStage(options, wacz, fs, events, set_order, ties)
    ELSE MetadataStage(options, wacz,
                       (options.wacz_output_file :> fs[wacz_filepath(crawler)]) @@ fs,
                       Append(events, "wacz_out"), set_order, ties)

\* crawled is the outcome of crawler.crawl()
Crawled(options, wacz, crawler, crawled, events, set_order, ties) ==
    IF crawled.exc # "none"
    THEN HarvestOutcome(crawled.exc, crawled.fs, events \o <<"crawl">> \o crawled.steps, <<>>)
    ELSE WaczCopy(options, wacz, crawler, crawled.fs, events \o <<"crawl">> \o crawled.steps,
                  set_order, ties)

\* the crawler of a harvest: Crawler(crawl_name, config_yaml_file, ...,
\* sitemap_to_date=, urls_file=). The two keyword arguments are those of a
\* revision of Crawler.__init__ that src/harvester/crawl.py does not hold;
\* they reach the command line of the crawl only
HarvestCrawler(options) == Crawler(options.crawl_name, options.config_yaml_file)

\* the parser of a harvest: SitemapsParser(sitemap_root,
\* sitemap_paths=sitemap_path), the call of a revision of
\* SitemapsParser.__init__ that src/harvester/sitemaps.py does not hold; the
\* sitemaps it names are options.sitemaps
HarvestSitemapsParser(options) == SitemapsParser(options.sitemaps, <<>>, <<>>)

\* crawler = Crawler(...) and crawler.crawl()
CrawlStage(options, wacz, fs, environ, process, events, set_order, ties) ==
    Crawled(options, wacz, HarvestCrawler(options),
            crawl(HarvestCrawler(options), fs, environ, process), events, set_order, ties)

\* written is the outcome of sitemaps_parser.write_urls(ALL_SITEMAP_URLS_FILEPATH)
AllUrlsWritten(options, wacz, written, environ, process, events, set_order, ties) ==
    IF written.exc # "none" THEN HarvestOutcome(written.exc, written.fs, events, <<>>)
    ELSE CrawlStage(options, wacz, written.fs, environ, process, events, set_order, ties)

\* written is the outcome of sitemaps_parser.write_urls(
\* CRAWL_SITEMAP_URLS_FILEPATH, sitemap_from_date, sitemap_to_date)
CrawlUrlsWritten(options, wacz, written, environ, process, listing, set_order, ties) ==
    IF written.exc # "none"
    THEN HarvestOutcome(written.exc, written.fs, <<"parse", "write_urls">>, <<>>)
    ELSE AllUrlsWritten(options, wacz,
                        write_urls(written.self, written.fs, ALL_SITEMAP_URLS_FILEPATH, <<>>,
                                   <<>>, listing),
                        environ, process, <<"parse", "write_urls", "write_urls">>, set_order,
                        ties)

\* "if parse_sitemaps_pre_crawl"
SitemapsStage(options, wacz, fs, environ, process, listing, set_order, ties) ==
    IF ~options.parse_sitemaps_pre_crawl
    THEN CrawlStage(options, wacz, fs, environ, process, <<>>, set_order, ties)
    ELSE CrawlUrlsWritten(options, wacz,
                          write_urls(parse(HarvestSitemapsParser(options), listing),
                                     fs, CRAWL_SITEMAP_URLS_FILEPATH, options.sitemap_from_date,
                                     options.sitemap_to_date, listing),
                          environ, process, listing, set_order, ties)

\* the harvest that does not ask for an output option
harvest_whatever_the_outputs(options, wacz, fs, environ, process, listing, set_order, ties) ==
    SitemapsStage(options, wacz, fs, environ, process, listing, set_order, ties)

\* the harvest command; an option that is not given is <<>>
harvest(options, wacz, fs, environ, process, listing, set_order, ties) ==
    IF options.wacz_output_file = <<>> /\ options.metadata_output_file = <<>>
    THEN HarvestOutcome("none", fs, <<>>,
                        <<"One or both of arguments --wacz-output-file and --metadata-output-file must be set.">>)
    ELSE SitemapsStage(options, wacz, fs, environ, process, listing, set_order, ties)

\* ------------------------------------------------------------ environment
\* the modelled archives: a WACZ file is a function from the paths of its
\* entries to their contents
PagesHeader ==
    [format |-> <<"json-pages-1.0">>, id |-> <<"pages">>, title |-> <<"All Pages">>]

\* the urls of the rows of the manifests that vary
PageUrls == {UrlA, UrlSitemapXml, UrlSitemapHtml, UrlSitemapDir}

PageRow(f, i, url) ==
    [id |-> <<"page", Digits[f + 1], Digits[i + 1]>>, url |-> url,
     title |-> <<"Title", Digits[f + 1], Digits[i + 1]>>,
     text |-> <<"Hello", "\n", "world">>]

SeqsUpTo(S, n) == UNION {[1..k -> S] : k \in 0..n}

\* file f of PAGES_FILEPATHS holding a header line and one row per url
PagesFile(f, urls) == <<PagesHeader>> \o [i \in 1..Len(urls) |-> PageRow(f, i, urls[i])]

\* <<>> stands for "not in the archive", <<lines>> for a file: a header line
\* followed by at most n rows
PagesFiles(f, n) ==
    {<<>>} \cup {<<PagesFile(f, u)>> : u \in SeqsUpTo(PageUrls, n)}

CdxLine(t) == <<"edu,mit)/", "20230925175224", t>>

CdxLines ==
    {CdxLine(t) : t \in DOMAIN JsonObjects}
        \cup {<<"edu,mit)/", "20230925175224">>,
              <<"{a html w1 5}">>,
              <<"edu,mit)/", "20230925175224", "not-json">>,
              <<"edu,mit)/", "20230925175224", "junk", "{a html w1 5}">>}

CdxFiles == {<<>>} \cup {<<l>> : l \in SeqsUpTo(CdxLines, MaxCdxLines)}

\* an element of a parsed document: its attributes are a function from their
\* names to their values
Element(tag, attrs, children) == [tag |-> tag, attrs |-> attrs, children |-> children]

\* <meta attr="name" content="content"/>
Meta(attr, name, content) == Element("meta", (attr :> name) @@ ("content" :> content), <<>>)

OgTitle == <<"og", ":", "title">>

DcTitle == <<"DC.", "Title">>

\* <html><head>elements</head><body><div/></body></html>, or the elements in
\* the div of the body
Page(elements, in_head) ==
    <<Element("html", <<>>,
              <<Element("head", <<>>, IF in_head THEN elements ELSE <<>>),
                Element("body", <<>>,
                        <<Element("div", <<>>, IF in_head THEN <<>> ELSE elements)>>)>>)>>

\* the records of a segment file by their offsets: the documents of the pages
WarcFile(name) ==
    IF name = Warc1
    THEN (5 :> Page(<<Meta("property", OgTitle, <<"Test", " ", "Title">>)>>, TRUE))
             @@ (10 :> Page(<<Meta("name", DcTitle, <<" ", "Guide">>),
                              Meta("property", OgTitle, <<>>)>>, FALSE))
    ELSE (7 :> Page(<<>>, TRUE))

Entry(path, file) == IF file = <<>> THEN <<>> ELSE path :> file[1]

Wacz(pages_jsonl, extra_pages, cdx, warcs) ==
    Entry(PAGES_FILEPATHS[1], pages_jsonl) @@ Entry(PAGES_FILEPATHS[2], extra_pages)
        @@ Entry(CDX_INDEX_FILEPATH, cdx)
        @@ [p \in {WARC_DIR \o <<"/">> \o w : w \in warcs} |-> WarcFile(SubSeq(p, 3, Len(p)))]

StdCdx ==
    <<CdxLine("{a html w1 5}"), <<"edu,mit)/", "20230925175224">>,
      CdxLine("{b html w2 7}"), CdxLine("{b png w1 5}")>>

DupCdx == <<CdxLine("{a html w1 5}"), CdxLine("{a html w1 10}"), CdxLine("{b html w2 7}")>>

StdPages == <<PagesFile(1, <<UrlA, UrlB, UrlSitemapXml>>)>>

StdExtraPages == <<PagesFile(2, <<UrlA, UrlSitemapHtml>>)>>

\* archives whose manifests vary
ManifestArchives ==
    {Wacz(p, e, <<StdCdx>>, {Warc1, Warc2}) :
        p \in PagesFiles(1, MaxPageRows), e \in PagesFiles(2, MaxExtraPageRows)}

\* archives whose index varies
IndexArchives == {Wacz(StdPages, StdExtraPages, c, {Warc1, Warc2}) : c \in CdxFiles}

\* archives whose segment files vary
SegmentArchives ==
    {Wacz(p, StdExtraPages, <<c>>, w) : p \in {<<>>, StdPages}, c \in {StdCdx, DupCdx},
                            w \in {{}, {Warc1}, {Warc1, Warc2}}}

\* files of sitemap URLs: the lines of the current and of the previous list
CurrentUrlsPath == <<"/tmp/urls-all.txt">>

PreviousUrlsPath == <<"s3://bucket/previous-urls.txt">>

UrlGone == <<"https://gone/">>

CurrentUrlsFiles == {<<>>, << <<UrlA \o <<"\n">>, UrlB \o <<"\n">>>> >>, << <<UrlB \o <<"\n">>>> >>}

PreviousUrlsFiles ==
    {<<>>,
     << <<UrlA \o <<"\n">>, UrlB \o <<"\n">>, UrlGone \o <<"\n">>>> >>,
     << <<<<" ">> \o UrlA \o <<"\n">>, <<"\n">>, UrlGone, UrlGone \o <<"\n">>>> >>}

FileSystem(current, previous) ==
    Entry(CurrentUrlsPath, current) @@ Entry(PreviousUrlsPath, previous)

FileSystems == {FileSystem(c, p) : c \in CurrentUrlsFiles, p \in PreviousUrlsFiles}

\* the orders in which a set of the URLs of the files is enumerated: one order
\* and its reverse, so that every two URLs occur in both relative orders
SetOrders == {<<UrlA, UrlB, UrlGone, <<>>>>, <<<<>>, UrlGone, UrlB, UrlA>>}

\* ----------------------------------------------------------- state machine
VARIABLES environ, sitemaps_parser, requests, html_content, raw_fulltext, wacz, fs, wacz_client, parser, websites_metadata_df, closed, result

vars == <<environ, sitemaps_parser, requests, html_content, raw_fulltext, wacz, fs, wacz_client, parser, websites_metadata_df, closed, result>>

\* environ       os.environ: the environment variables that are set
\* sitemaps_parser  a SitemapsParser held by the caller, <<>> when there is none
\* requests      the (include_fulltext, extract_fulltext_keywords) flags the
\*               callers of generate_metadata ask for
\* html_content  an HTML document held by the caller
\* raw_fulltext  the text of a page held by the caller, NaN when absent

\* wacz         the entries of the WACZ file at wacz_filepath
\* fs           the URL list files that can be opened
\* wacz_client  a WACZClient(wacz_filepath) held by the caller
\* parser       a CrawlMetadataParser(wacz_filepath)
\* websites_metadata_df  a dataframe of records held by the caller
\* closed       close() or __exit__ ran on wacz_client after its last __enter__
\* result       the last call: its name, arguments, exception and value, and
\*              the ZipFile objects and closed as they were before the call;
\*              again tells that the call before it was the same call and
\*              returned; a generate_metadata call also records its flags,
\*              the client of its with block, the list that block built and
\*              whether it found a cached record set

Start == [op |-> "__init__", args |-> <<>>, exc |-> "none", val |-> NaN,
          zipfiles_before |-> <<>>, closed_before |-> FALSE]

\* include_fulltext = False, extract_fulltext_keywords = False
DefaultFlags == <<FALSE, FALSE>>

InitWith(archives, filesystems, record_sets) ==
    /\ environ = <<>>
    /\ sitemaps_parser = <<>>
    /\ requests = {DefaultFlags}
    /\ html_content = <<>>
    /\ raw_fulltext = NaN
    /\ wacz \in archives
    /\ fs \in filesystems
    /\ websites_metadata_df \in record_sets
    /\ wacz_client = WACZClient
    /\ parser = CrawlMetadataParser
    /\ closed = FALSE
    /\ result = Start

Returned(op, args, exc, val) ==
    result' = [op |-> op, args |-> args, exc |-> exc, val |-> val,
               zipfiles_before |-> wacz_client.zipfiles, closed_before |-> closed]

\* the number of ZipFile objects of a run is bounded
CanOpen ==
    \/ wacz_client._wacz_archive # 0
    \/ ~wacz_client._via_context_manager
    \/ Len(wacz_client.zipfiles) < MaxOpens

\* the receiver of a call of a reading method of wacz_client
Receiver == [wacz_client EXCEPT !.reads = {}]

ReadReturned(op, args, r) ==
    /\ wacz_client' = r.self
    /\ Returned(op, args, r.exc, r.val)

Enter ==
    /\ wacz_client' = __enter__(wacz_client)
    /\ closed' = FALSE
    /\ Returned("__enter__", <<>>, "none", NaN)
    /\ UNCHANGED <<environ, sitemaps_parser, requests, html_content, raw_fulltext, wacz, fs, parser, websites_metadata_df>>

Exit ==
    /\ wacz_client._via_context_manager
    /\ wacz_client' = __exit__(wacz_client)
    /\ closed' = TRUE
    /\ Returned("__exit__", <<>>, "none", NaN)
    /\ UNCHANGED <<environ, sitemaps_parser, requests, html_content, raw_fulltext, wacz, fs, parser, websites_metadata_df>>

Close ==
    /\ wacz_client' = close(wacz_client)
    /\ closed' = TRUE
    /\ Returned("close", <<>>, "none", NaN)
    /\ UNCHANGED <<environ, sitemaps_parser, requests, html_content, raw_fulltext, wacz, fs, parser, websites_metadata_df>>

WaczArchive ==
    /\ CanOpen
    /\ ReadReturned("wacz_archive", <<>>, wacz_archive(Receiver))
    /\ UNCHANGED <<environ, sitemaps_parser, requests, html_content, raw_fulltext, wacz, fs, parser, websites_metadata_df, closed>>

GetArchiveFileObj ==
    \E path \in {PAGES_FILEPATHS[1], CDX_INDEX_FILEPATH, WARC_DIR \o <<"/">> \o Warc1} :
        /\ CanOpen
        /\ ReadReturned("_get_archive_file_obj", <<path>>,
                        _get_archive_file_obj(Receiver, wacz, path))
        /\ UNCHANGED <<environ, sitemaps_parser, requests, html_content, raw_fulltext, wacz, fs, parser, websites_metadata_df, closed>>

GetPagesDf ==
    /\ CanOpen
    /\ ReadReturned("_get_pages_df", <<>>, _get_pages_df(Receiver, wacz))
    /\ UNCHANGED <<environ, sitemaps_parser, requests, html_content, raw_fulltext, wacz, fs, parser, websites_metadata_df, closed>>

GetCdxDf ==
    /\ CanOpen
    /\ ReadReturned("_get_cdx_df", <<>>, _get_cdx_df(Receiver, wacz))
    /\ UNCHANGED <<environ, sitemaps_parser, requests, html_content, raw_fulltext, wacz, fs, parser, websites_metadata_df, closed>>

HtmlWebsitesDf ==
    /\ CanOpen
    /\ ReadReturned("html_websites_df", <<>>, html_websites_df(Receiver, wacz))
    /\ UNCHANGED <<environ, sitemaps_parser, requests, html_content, raw_fulltext, wacz, fs, parser, websites_metadata_df, closed>>

GetWebsiteContent ==
    \E warc_filename \in {Warc1, Warc2}, offset \in {<<"5">>, <<"9">>} :
        /\ CanOpen
        /\ ReadReturned("get_website_content", <<warc_filename, offset>>,
                        get_website_content(Receiver, wacz, warc_filename, offset))
        /\ UNCHANGED <<environ, sitemaps_parser, requests, html_content, raw_fulltext, wacz, fs, parser, websites_metadata_df, closed>>

GetWebsiteContentByUrl ==
    \E url \in {UrlA, UrlB, UrlGone} :
        /\ CanOpen
        /\ ReadReturned("get_website_content_by_url", <<url>>,
                        get_website_content_by_url(Receiver, wacz, url))
        /\ UNCHANGED <<environ, sitemaps_parser, requests, html_content, raw_fulltext, wacz, fs, parser, websites_metadata_df, closed>>

GenerateMetadata ==
    \E with_files \in BOOLEAN, set_order \in SetOrders, ties \in {"stable", "reversed"},
       flags \in requests :
        LET urls_file == IF with_files THEN CurrentUrlsPath ELSE <<>>
            previous_sitemap_urls_file == IF with_files THEN PreviousUrlsPath ELSE <<>>
            include_fulltext == flags[1]
            extract_fulltext_keywords == flags[2]
        IN \E r \in {generate_metadata(parser, wacz, fs, urls_file,
                                       previous_sitemap_urls_file, set_order, ties,
                                       include_fulltext, extract_fulltext_keywords)} :
              /\ parser' = r.self
              /\ result' = [op |-> "generate_metadata",
                            args |-> <<urls_file, previous_sitemap_urls_file>>,
                            flags |-> <<include_fulltext, extract_fulltext_keywords>>,
                            exc |-> r.exc, val |-> r.val, wacz_client |-> r.wacz_client,
                            all_metadata |-> r.all_metadata,
                            cached |-> parser._websites_metadata # <<>>,
                            zipfiles_before |-> wacz_client.zipfiles,
                            closed_before |-> closed]
              /\ UNCHANGED <<environ, sitemaps_parser, requests, html_content, raw_fulltext, wacz, fs, wacz_client, websites_metadata_df, closed>>

GenerateMetadataForDeletedUrls ==
    \E set_order \in SetOrders :
        \E r \in {_generate_metadata_for_deleted_urls(fs, CurrentUrlsPath, PreviousUrlsPath,
                                                      set_order)} :
           /\ Returned("_generate_metadata_for_deleted_urls",
                       <<CurrentUrlsPath, PreviousUrlsPath>>, r.exc, r.val)
           /\ UNCHANGED <<environ, sitemaps_parser, requests, html_content, raw_fulltext, wacz, fs, wacz_client, parser, websites_metadata_df, closed>>

\* the URLs and offsets of the record sets given to _remove_duplicate_urls
RecordKinds == {UrlA, UrlB} \X {<<"5">>, <<"1", "0">>, NaN}

\* a record as generate_metadata builds it: a deleted record has the keys url
\* and status only
RecordDict(kind) ==
    IF kind[2] = NaN THEN [url |-> kind[1], status |-> <<"deleted">>]
    ELSE [url |-> kind[1], status |-> <<"active">>, cdx_offset |-> kind[2]]

RecordSets(n) ==
    {DataFrame([i \in 1..Len(kinds) |-> RecordDict(kinds[i])]) :
        kinds \in SeqsUpTo(RecordKinds, n)}

\* websites_metadata_df = self._remove_duplicate_urls(websites_metadata_df)
RemoveDuplicateUrls ==
    \E ties \in {"stable", "reversed"} :
        \E r \in {_remove_duplicate_urls(websites_metadata_df, ties)} :
           /\ websites_metadata_df' = r.df
           /\ result' = [op |-> "_remove_duplicate_urls",
                         args |-> <<websites_metadata_df>>,
                         exc |-> r.exc, val |-> <<r.df>>,
                         again |-> (result.op = "_remove_duplicate_urls"
                                        /\ result.exc = "none"),
                         zipfiles_before |-> wacz_client.zipfiles,
                         closed_before |-> closed]
           /\ UNCHANGED <<environ, sitemaps_parser, requests, html_content, raw_fulltext, wacz, fs, wacz_client, parser, closed>>

\* the tags of the modelled documents
MetaElements ==
    {Meta("property", OgTitle, <<"Test", " ", "Title">>),
     Meta("property", OgTitle, <<>>),
     Meta("property", OgTitle, <<" ", "\n">>),
     Meta("property", <<"og", ":", "description">>, <<" ", "Test", " ", "Description", "\n">>),
     Meta("property", <<"og", ":", "image", ":", "url">>, <<"https://a/", "img">>),
     Meta("name", DcTitle, <<"Guide">>),
     Meta("property", DcTitle, <<"Guide">>),
     Meta("name", OgTitle, <<"Named">>),
     Meta("property", <<"og", ":", "video">>, <<"https://a/", "video">>),
     Element("meta", "property" :> OgTitle, <<>>),
     Element("link", ("property" :> OgTitle) @@ ("content" :> <<"Linked">>), <<>>)}

Htmls == {Page(elements, in_head) : elements \in SeqsUpTo(MetaElements, MaxTags),
                                    in_head \in BOOLEAN}

Texts == SeqsUpTo({"Hello", "MIT", "world", " ", "\n", "\r", "\t"}, MaxTextLen) \cup {NaN}

GetHtmlContentMetadata ==
    /\ html_content # <<>>
    /\ Returned("get_html_content_metadata", <<html_content>>, "none",
                get_html_content_metadata(html_content))
    /\ UNCHANGED <<environ, sitemaps_parser, requests, html_content, raw_fulltext, wacz, fs, wacz_client, parser, websites_metadata_df, closed>>

ParseFulltextFields ==
    /\ html_content = <<>>
    /\ \E include_fulltext \in BOOLEAN, extract_fulltext_keywords \in BOOLEAN :
          \E r \in {parse_fulltext_fields(parser, raw_fulltext, include_fulltext,
                                          extract_fulltext_keywords)} :
             /\ parser' = r.self
             /\ result' = [op |-> "parse_fulltext_fields",
                           args |-> <<raw_fulltext, include_fulltext,
                                      extract_fulltext_keywords>>,
                           exc |-> r.exc, val |-> r.val, parser_before |-> parser,
                           zipfiles_before |-> wacz_client.zipfiles,
                           closed_before |-> closed]
    /\ UNCHANGED <<environ, sitemaps_parser, requests, html_content, raw_fulltext, wacz, fs, wacz_client, websites_metadata_df, closed>>

\* self.keyword_extractor
GetKeywordExtractor ==
    /\ html_content = <<>>
    /\ \E r \in {keyword_extractor(parser)} :
          /\ parser' = r.self
          /\ result' = [op |-> "keyword_extractor", args |-> <<>>, exc |-> r.exc,
                        val |-> r.val, parser_before |-> parser,
                        zipfiles_before |-> wacz_client.zipfiles,
                        closed_before |-> closed]
    /\ UNCHANGED <<environ, sitemaps_parser, requests, html_content, raw_fulltext, wacz, fs, wacz_client, websites_metadata_df, closed>>

\* the values of the cells of the record sets given to the serializers: a
\* null, the string None, the empty string, and a string of characters the
\* formats have to escape or quote
CellValues == {NaN, <<"None">>, <<>>, <<"a", "\"", "<", "&", ">", "\t", ",", "\n", "\\">>}

\* the record sets of the columns in the order columns
RecordSetsOf(columns) ==
    {[cols |-> Range(columns), columns |-> columns, rows |-> rows] :
        rows \in SeqsUpTo([Range(columns) -> CellValues], MaxRows)}

WriteRecordSets == RecordSetsOf(<<"url", "status">>) \cup RecordSetsOf(<<"url">>)

Filepaths ==
    {<<"out", ".", "xml">>, <<"out", ".", "jsonl">>, <<"out", ".", "tsv">>,
     <<"s3://bucket/out", ".", "csv">>, <<"out", ".", "XML">>, <<"out", ".", "Jsonl">>,
     <<"out", ".", "TSV">>, <<"out", ".", "tar", ".", "Csv">>, <<"out", ".", "xml", " ">>,
     <<"jsonl">>, <<"out", ".", "xml", ".", "txt">>, <<"out", ".", "json">>, <<"out", ".">>,
     <<"out">>}

\* crawl_metadata_records.write(filepath)
Write ==
    \E filepath \in Filepaths :
        \E r \in {write(websites_metadata_df, filepath)} :
           /\ result' = [op |-> "write", args |-> <<filepath>>, exc |-> r.exc, val |-> r.val,
                         streams |-> r.streams, files |-> r.files,
                         zipfiles_before |-> wacz_client.zipfiles, closed_before |-> closed]
           /\ UNCHANGED <<environ, sitemaps_parser, requests, html_content, raw_fulltext, wacz, fs, wacz_client, parser, websites_metadata_df, closed>>

ToXml ==
    /\ Returned("to_xml", <<>>, "none", to_xml(websites_metadata_df))
    /\ UNCHANGED <<environ, sitemaps_parser, requests, html_content, raw_fulltext, wacz, fs, wacz_client, parser, websites_metadata_df, closed>>

ToJsonl ==
    /\ Returned("to_jsonl", <<>>, "none", to_jsonl(websites_metadata_df))
    /\ UNCHANGED <<environ, sitemaps_parser, requests, html_content, raw_fulltext, wacz, fs, wacz_client, parser, websites_metadata_df, closed>>

\* the crawler of the harvest named test
TestCrawler == Crawler(<<"test">>, <<"path/to/fake_config.yaml">>)

\* the browsertrix processes: the code they exit with, the lines they write
\* and the WACZ file they leave, if any
Processes ==
    {[returncode |-> c, stdout |-> out, stderr |-> err, wacz |-> w] :
        c \in 0..MaxReturnCode,
        out \in {<<>>, << <<"stdout1", "\n">>, <<"\n">>, <<" ", "stdout2", "\n">> >>},
        err \in {<<>>, << <<"stderr1", "\n">>, <<"stderr2", "\n">>, <<>> >>},
        w \in {<<>>, <<"WACZ">>}}

\* the file systems a crawl starts in: inside a container or not, with the
\* config YAML or not, with the collection of an earlier crawl or not
CrawlFileSystems ==
    {(IF docker THEN DOCKERENV :> <<"">> ELSE <<>>)
        @@ (IF config THEN TestCrawler.config_yaml_filepath :> <<"seeds">> ELSE <<>>)
        @@ (IF previous THEN (crawl_output_dir(TestCrawler) :> <<"dir">>)
                                 @@ (wacz_filepath(TestCrawler) :> <<"OLD WACZ">>)
            ELSE <<>>) :
        docker \in BOOLEAN, config \in BOOLEAN, previous \in BOOLEAN}

Environs == {<<>>, [name \in {"AWS_EXECUTION_ENV"} |-> <<"AWS_ECS_FARGATE">>]}

\* crawler.crawl()
Crawl ==
    \E process \in Processes :
        \E r \in {crawl(TestCrawler, fs, environ, process)} :
           /\ fs' = r.fs
           /\ result' = [op |-> "crawl", args |-> <<process>>, exc |-> r.exc, val |-> r.val,
                         steps |-> r.steps, logged |-> r.logged, fs_before |-> fs,
                         zipfiles_before |-> wacz_client.zipfiles, closed_before |-> closed]
           /\ UNCHANGED <<environ, sitemaps_parser, requests, html_content, raw_fulltext, wacz, wacz_client, parser, websites_metadata_df, closed>>

\* the sitemaps given to a SitemapsParser and the optional dates of a filter
SitemapLists ==
    {<< <<"https://", "example.com", "/sitemap.xml">> >>,
     << <<"https://", "example.com", "/sitemap.xml">>,
        <<"https://", "example.com", "/news/sitemap.xml">> >>,
     << <<"https://", "example.com", "/news/sitemap.xml">>,
        <<"https://", "other.com", "/sitemap.xml">> >>}

OptionalDates == {<<>>, <<"2025-02-01">>, <<"2025-02-15">>}

\* parser.pages(sitemap_from_date, sitemap_to_date)
SitemapsPages ==
    \E sitemap_from_date \in OptionalDates, sitemap_to_date \in OptionalDates,
       listing \in ListsOf(DiscoveredPages(sitemaps_parser.sitemaps)) :
        \E r \in {pages(sitemaps_parser, sitemap_from_date, sitemap_to_date, listing)} :
           /\ sitemaps_parser' = r.self
           /\ result' = [op |-> "pages", args |-> <<sitemap_from_date, sitemap_to_date>>,
                         exc |-> r.exc, val |-> r.val, parsed_before |-> sitemaps_parser._pages,
                         zipfiles_before |-> wacz_client.zipfiles, closed_before |-> closed]
           /\ UNCHANGED <<environ, requests, html_content, raw_fulltext, wacz, fs, wacz_client, parser, websites_metadata_df, closed>>

\* parser.parse()
SitemapsParse ==
    \E listing \in ListsOf(DiscoveredPages(sitemaps_parser.sitemaps)) :
       /\ sitemaps_parser' = parse(sitemaps_parser, listing)
       /\ result' = [op |-> "parse", args |-> <<>>, exc |-> "none", val |-> NaN,
                     parsed_before |-> sitemaps_parser._pages,
                     zipfiles_before |-> wacz_client.zipfiles, closed_before |-> closed]
       /\ UNCHANGED <<environ, requests, html_content, raw_fulltext, wacz, fs, wacz_client, parser, websites_metadata_df, closed>>

\* the options of a harvest command: with and without each output, a
\* metadata file of a supported and of an unsupported format
HarvestOptions ==
    {[crawl_name |-> TestCrawler.crawl_name,
      config_yaml_file |-> TestCrawler.config_yaml_filepath,
      parse_sitemaps_pre_crawl |-> parse_sitemaps,
      sitemaps |-> << <<"https://", "example.com", "/news/sitemap.xml">> >>,
      sitemap_from_date |-> sitemap_from_date, sitemap_to_date |-> <<>>,
      wacz_output_file |-> wacz_out, metadata_output_file |-> metadata_out,
      sitemap_urls_output_file |-> urls_out, previous_sitemap_urls_file |-> previous,
      include_fulltext |-> flags[1], extract_fulltext_keywords |-> flags[2]] :
        parse_sitemaps \in BOOLEAN, sitemap_from_date \in {<<>>, <<"2025-02-01">>},
        wacz_out \in {<<>>, <<"s3://bucket/test.wacz">>},
        metadata_out \in {<<>>, <<"out", ".", "xml">>, <<"out", ".", "json">>},
        urls_out \in {<<>>, <<"s3://bucket/urls-all.txt">>},
        previous \in {<<>>, PreviousUrlsPath}, flags \in requests}

\* the processes of the crawls of a harvest
HarvestProcesses == {process \in Processes : process.stdout = <<>> /\ process.stderr = <<>>}

\* the file systems a harvest starts in: those of a crawl, with or without
\* the list of the URLs of a previous harvest
HarvestFileSystems ==
    {files @@ FileSystem(<<>>, previous) :
        files \in CrawlFileSystems,
        previous \in {<<>>, << <<UrlA \o <<"\n">>, UrlGone \o <<"\n">>>> >>}}

\* the harvest command, run once; wacz is the archive its crawl leaves
Harvest ==
    /\ result.op = "__init__"
    /\ \E options \in HarvestOptions, process \in HarvestProcesses,
          listing \in ListsOf(DiscoveredPages(<< <<"https://", "example.com", "/news/sitemap.xml">> >>)),
          set_order \in SetOrders, ties \in {"stable", "reversed"} :
          \E r \in {harvest(options, wacz, fs, environ, process, listing, set_order, ties)} :
             /\ fs' = r.fs
             /\ result' = [op |-> "harvest", args |-> <<options>>, exc |-> r.exc, val |-> NaN,
                           events |-> r.events, logged |-> r.logged, fs_before |-> fs,
                           zipfiles_before |-> wacz_client.zipfiles, closed_before |-> closed]
             /\ UNCHANGED <<environ, sitemaps_parser, requests, html_content, raw_fulltext, wacz, wacz_client, parser, websites_metadata_df, closed>>

NoFiles == {FileSystem(<<>>, <<>>)}

NoRecords == {DataFrame(<<>>)}

\* a caller holding a WACZClient, and a parser
Init == InitWith(SegmentArchives, NoFiles, NoRecords)

Next ==
    \/ Enter
    \/ Exit
    \/ Close
    \/ WaczArchive
    \/ GetArchiveFileObj
    \/ GetPagesDf
    \/ GetCdxDf
    \/ HtmlWebsitesDf
    \/ GetWebsiteContent
    \/ GetWebsiteContentByUrl
    \/ GenerateMetadata

Spec == Init /\ [][Next]_vars

\* the record index builder over the archives
InitIndex == InitWith(ManifestArchives \cup IndexArchives, NoFiles, NoRecords)

NextIndex ==
    \/ Enter
    \/ GetPagesDf
    \/ GetCdxDf
    \/ HtmlWebsitesDf
    \/ GetWebsiteContentByUrl

SpecIndex == InitIndex /\ [][NextIndex]_vars

\* reconciliation and dedup
DedupArchives ==
    {Wacz(StdPages, e, <<DupCdx>>, {Warc1, Warc2}) : e \in {<<>>, StdExtraPages}}

InitDedup ==
    \/ InitWith(DedupArchives, FileSystems, NoRecords)
    \/ InitWith({Wacz(StdPages, <<>>, <<StdCdx>>, {Warc1, Warc2})}, NoFiles,
                RecordSets(MaxRecords))

NextDedup ==
    \/ GenerateMetadata
    \/ GenerateMetadataForDeletedUrls
    \/ RemoveDuplicateUrls

SpecDedup == InitDedup /\ [][NextDedup]_vars

\* the derivation of the fields of a record from a document or a text
InitEnrich ==
    /\ environ = <<>>
    /\ sitemaps_parser = <<>>
    /\ requests = {DefaultFlags}
    /\ \/ html_content \in Htmls /\ raw_fulltext = NaN
       \/ html_content = <<>> /\ raw_fulltext \in Texts
    /\ wacz = Wacz(StdPages, <<>>, <<StdCdx>>, {Warc1, Warc2})
    /\ fs \in NoFiles
    /\ websites_metadata_df \in NoRecords
    /\ wacz_client = WACZClient
    /\ parser = CrawlMetadataParser
    /\ closed = FALSE
    /\ result = Start

NextEnrich ==
    \/ GetHtmlContentMetadata
    \/ ParseFulltextFields
    \/ GetKeywordExtractor

SpecEnrich == InitEnrich /\ [][NextEnrich]_vars

\* the serialization of a record set
InitWrite ==
    InitWith({Wacz(StdPages, <<>>, <<StdCdx>>, {Warc1, Warc2})}, NoFiles, WriteRecordSets)

NextWrite ==
    \/ Write
    \/ ToXml
    \/ ToJsonl

SpecWrite == InitWrite /\ [][NextWrite]_vars

\* the records of an archive under every choice of the flags; archives with a
\* segment file, with both manifests or with the index missing among them
RecordsArchives ==
    {Wacz(StdPages, StdExtraPages, <<c>>, w) : c \in {StdCdx, DupCdx},
                                               w \in {{Warc1}, {Warc1, Warc2}}}
        \cup {Wacz(<<>>, <<>>, <<StdCdx>>, {Warc1, Warc2}),
              Wacz(StdPages, StdExtraPages, <<>>, {Warc1, Warc2})}

\* no URL lists, or lists by which UrlB and UrlGone are deleted
RecordsFileSystems ==
    {FileSystem(<<>>, <<>>),
     FileSystem(<< <<UrlA \o <<"\n">>>> >>,
                << <<UrlA \o <<"\n">>, UrlB \o <<"\n">>, UrlGone \o <<"\n">>>> >>)}

InitRecords ==
    /\ environ = <<>>
    /\ sitemaps_parser = <<>>
    /\ requests = BOOLEAN \X BOOLEAN
    /\ html_content = <<>>
    /\ raw_fulltext = NaN
    /\ wacz \in RecordsArchives
    /\ fs \in RecordsFileSystems
    /\ websites_metadata_df \in NoRecords
    /\ wacz_client = WACZClient
    /\ parser = CrawlMetadataParser
    /\ closed = FALSE
    /\ result = Start

NextRecords ==
    \/ Enter
    \/ WaczArchive
    \/ HtmlWebsitesDf
    \/ GetKeywordExtractor
    \/ GenerateMetadata

SpecRecords == InitRecords /\ [][NextRecords]_vars

\* a crawl, in and out of a container
InitCrawl ==
    /\ environ \in Environs
    /\ sitemaps_parser = <<>>
    /\ requests = {DefaultFlags}
    /\ html_content = <<>>
    /\ raw_fulltext = NaN
    /\ wacz = Wacz(StdPages, <<>>, <<StdCdx>>, {Warc1, Warc2})
    /\ fs \in CrawlFileSystems
    /\ websites_metadata_df \in NoRecords
    /\ wacz_client = WACZClient
    /\ parser = CrawlMetadataParser
    /\ closed = FALSE
    /\ result = Start

NextCrawl == Crawl

SpecCrawl == InitCrawl /\ [][NextCrawl]_vars

\* a SitemapsParser and its callers
InitSitemaps ==
    /\ environ = <<>>
    /\ sitemaps_parser \in {SitemapsParser(sitemaps, from, to) :
                               sitemaps \in SitemapLists, from \in OptionalDates,
                               to \in OptionalDates}
    /\ requests = {DefaultFlags}
    /\ html_content = <<>>
    /\ raw_fulltext = NaN
    /\ wacz = Wacz(StdPages, <<>>, <<StdCdx>>, {Warc1, Warc2})
    /\ fs \in NoFiles
    /\ websites_metadata_df \in NoRecords
    /\ wacz_client = WACZClient
    /\ parser = CrawlMetadataParser
    /\ closed = FALSE
    /\ result = Start

NextSitemaps == SitemapsPages \/ SitemapsParse

SpecSitemaps == InitSitemaps /\ [][NextSitemaps]_vars

\* a harvest command
InitHarvest ==
    /\ environ = <<>>
    /\ sitemaps_parser = <<>>
    /\ requests = {DefaultFlags}
    /\ html_content = <<>>
    /\ raw_fulltext = NaN
    /\ wacz = Wacz(StdPages, StdExtraPages, <<StdCdx>>, {Warc1, Warc2})
    /\ fs \in HarvestFileSystems
    /\ websites_metadata_df \in NoRecords
    /\ wacz_client = WACZClient
    /\ parser = CrawlMetadataParser
    /\ closed = FALSE
    /\ result = Start

NextHarvest == Harvest

SpecHarvest == InitHarvest /\ [][NextHarvest]_vars

\* ------------------------------------------------------------- properties
ReadOps ==
    {"wacz_archive", "_get_archive_file_obj", "_get_pages_df", "_get_cdx_df",
     "html_websites_df", "get_website_content", "get_website_content_by_url"}

Released(client) ==
    /\ client._wacz_archive = 0
    /\ \A i \in 1..Len(client.zipfiles) : client.zipfiles[i] = "closed"

SegmentPaths == {p \in DOMAIN wacz : p[1] = WARC_DIR[1]}

HasSitemapSuffix(url) ==
    /\ Len(url) >= 2
    /\ url[Len(url) - 1] = "sitemap"
    /\ url[Len(url)] \in {".html", ".xml"}

\* the data rows of manifest file f, <<>> when the file is not in the archive
ManifestRows(f) ==
    IF PAGES_FILEPATHS[f] \notin DOMAIN wacz THEN <<>>
    ELSE LET lines == wacz[PAGES_FILEPATHS[f]]
         IN SelectSeq(SubSeq(lines, 2, Len(lines)), LAMBDA r : ~HasSitemapSuffix(r.url))

PresentManifests == {f \in 1..2 : PAGES_FILEPATHS[f] \in DOMAIN wacz}

Occurrences(rows, url) == Cardinality({i \in 1..Len(rows) : rows[i]["url"] = url})

\* the payloads of the well-formed lines of the index whose mime is text/html
WellFormed(line) == Len(line) = 3 /\ line[3] \in DOMAIN JsonObjects

Field(dict, key) == IF key \in DOMAIN dict THEN dict[key] ELSE NaN

HtmlPayloads ==
    LET lines == wacz[CDX_INDEX_FILEPATH]
        good == SelectSeq(lines, LAMBDA l : WellFormed(l)
                                            /\ Field(JsonObjects[l[3]], "mime") = TEXT_HTML)
    IN [i \in 1..Len(good) |-> JsonObjects[good[i][3]]]

Pointer(dict) == <<Field(dict, "url"), Field(dict, "filename"), Field(dict, "offset")>>

\* C1: once wacz_client has been closed, by close() or by leaving its with
\* block, every later read on it fails with a closed-archive error
ClosedHandleRejectsReads ==
    (result.op \in ReadOps /\ result.closed_before)
        => result.exc \in {"ClosedArchiveError", "ContextManagerRequiredError"}

\* C2: a client that was never entered rejects every read with
\* ContextManagerRequiredError, opens no ZipFile and reads no entry
NeverEnteredRejectsReads ==
    (result.op \in ReadOps /\ ~wacz_client._via_context_manager)
        => /\ result.exc = "ContextManagerRequiredError"
           /\ wacz_client._wacz_archive = 0
           /\ wacz_client.zipfiles = <<>>
           /\ wacz_client.reads = {}

NeverEnteredReadAttempted ==
    /\ result.op = "html_websites_df"
    /\ ~wacz_client._via_context_manager
    /\ result.exc = "ContextManagerRequiredError"

\* C3: when a with block ends, and when generate_metadata returns or raises,
\* every ZipFile opened in the session is closed and _wacz_archive is None
HandleReleasedOnEveryExit ==
    /\ result.op = "__exit__" => Released(wacz_client)
    /\ result.op = "generate_metadata" => Released(result.wacz_client)

SessionRaisedAtLaterRow ==
    /\ result.op = "generate_metadata"
    /\ result.exc = "WaczFileDoesNotExist"
    /\ result.wacz_client.zipfiles = <<"closed">>
    /\ result.wacz_client.reads \cap SegmentPaths # {}

\* C4: close() raises nothing and leaves the handle closed, and a close() of
\* a handle that holds no open archive changes nothing
CloseIsIdempotent ==
    result.op = "close"
        => /\ result.exc = "none"
           /\ Released(wacz_client)
           /\ (\A i \in 1..Len(result.zipfiles_before) :
                    result.zipfiles_before[i] = "closed")
                => wacz_client.zipfiles = result.zipfiles_before

ClosedTwice ==
    /\ result.op = "close"
    /\ result.closed_before
    /\ result.zipfiles_before = <<"closed">>

\* C5: _get_pages_df raises WaczFileDoesNotExist exactly when neither pages
\* file is in the archive, and with exactly one of them in the archive it
\* returns the rows of that file
ManifestMissingExactlyWhenNoFile ==
    (result.op = "_get_pages_df" /\ wacz_client._via_context_manager)
        => /\ result.exc = "WaczFileDoesNotExist" <=> PresentManifests = {}
           /\ Cardinality(PresentManifests) = 1
                => /\ result.exc = "none"
                   /\ result.val.rows = ManifestRows(1) \o ManifestRows(2)

\* C6: the table _get_pages_df returns is the rows after the first line of
\* pages.jsonl, then those of extraPages.jsonl, without the rows whose url
\* ends in sitemap.html or sitemap.xml, each remaining row as often as it occurs
ManifestTableIsFilteredConcatenation ==
    (result.op = "_get_pages_df" /\ result.exc = "none")
        => /\ result.val.rows = ManifestRows(1) \o ManifestRows(2)
           /\ \A i \in 1..Len(result.val.rows) :
                    ~HasSitemapSuffix(result.val.rows[i]["url"])
           /\ \A url \in PageUrls :
                    Occurrences(result.val.rows, url) =
                        IF HasSitemapSuffix(url) THEN 0
                        ELSE Occurrences(ManifestRows(1), url)
                                + Occurrences(ManifestRows(2), url)

UrlInBothManifests ==
    /\ result.op = "_get_pages_df"
    /\ result.exc = "none"
    /\ PresentManifests = {1, 2}
    /\ Len(wacz[PAGES_FILEPATHS[1]]) = 3
    /\ Occurrences(ManifestRows(1), UrlA) = 1
    /\ Occurrences(ManifestRows(2), UrlA) = 1
    /\ Occurrences(result.val.rows, UrlA) = 2
    /\ Len(result.val.rows) = 2

\* C7: _get_cdx_df never raises on an index with malformed lines and returns
\* the payloads of the well-formed lines whose mime is text/html
MalformedIndexLineNeverFatal ==
    (/\ result.op = "_get_cdx_df"
     /\ wacz_client._via_context_manager
     /\ CDX_INDEX_FILEPATH \in DOMAIN wacz)
        => /\ result.exc = "none"
           /\ [i \in 1..Len(result.val.rows) |-> Pointer(result.val.rows[i])]
                = [i \in 1..Len(HtmlPayloads) |-> Pointer(HtmlPayloads[i])]

\* C8: every row of html_websites_df has a filename, mime text/html, the url
\* of a manifest row and the pointer of a text/html index entry of that url
JoinCorrectness ==
    (result.op = "html_websites_df" /\ result.exc = "none")
        => \A i \in 1..Len(result.val.rows) :
                LET row == result.val.rows[i]
                IN /\ ~IsNa(row["filename"])
                   /\ row["mime"] = TEXT_HTML
                   /\ Occurrences(ManifestRows(1) \o ManifestRows(2), row["url"]) > 0
                   /\ \E j \in 1..Len(HtmlPayloads) : Pointer(HtmlPayloads[j]) = Pointer(row)

JoinDropsUnmatched ==
    /\ result.op = "html_websites_df"
    /\ result.exc = "none"
    /\ Len(result.val.rows) > 0
    /\ \E i \in 1..Len(ManifestRows(1)) :
            Occurrences(HtmlPayloads, ManifestRows(1)[i].url) = 0
    /\ \E j \in 1..Len(HtmlPayloads) :
            Occurrences(ManifestRows(1) \o ManifestRows(2), HtmlPayloads[j].url) = 0

\* C9: get_website_content_by_url returns content only when exactly one row
\* of html_websites_df has the url; otherwise it raises FileNotFoundError
\* and opens no segment file
ContentByUrlRequiresUniqueRow ==
    (result.op = "get_website_content_by_url" /\ wacz_client._html_websites_df # <<>>)
        => LET n == Occurrences(wacz_client._html_websites_df[1].rows, result.args[1])
           IN /\ result.exc = "none" => n = 1
              /\ n # 1 => /\ result.exc = "FileNotFoundError"
                          /\ wacz_client.reads \cap SegmentPaths = {}

AmbiguousUrlRejected ==
    /\ result.op = "get_website_content_by_url"
    /\ result.exc = "FileNotFoundError"
    /\ wacz_client._html_websites_df # <<>>
    /\ Occurrences(wacz_client._html_websites_df[1].rows, result.args[1]) > 1

UrlsOf(rows) == {rows[i]["url"] : i \in 1..Len(rows)}

UniqueUrls(rows) == \A i, j \in 1..Len(rows) : rows[i]["url"] = rows[j]["url"] => i = j

\* C10: after _remove_duplicate_urls no two records have the same url and the
\* urls are those of the input; no two records of a record set returned by
\* generate_metadata have the same url
DedupYieldsUniqueUrls ==
    /\ (result.op = "_remove_duplicate_urls" /\ result.exc = "none")
        => /\ UniqueUrls(result.val[1].rows)
           /\ UrlsOf(result.val[1].rows) = UrlsOf(result.args[1].rows)
    /\ (result.op = "generate_metadata" /\ result.exc = "none")
        => UniqueUrls(result.val[1].rows)

DuplicatesRemoved ==
    /\ result.op = "_remove_duplicate_urls"
    /\ result.exc = "none"
    /\ Len(result.args[1].rows) = 3
    /\ Len(result.val[1].rows) = 2

\* the records of rows whose url is url
Group(rows, url) == SelectSeq(rows, LAMBDA r : r["url"] = url)

\* every record of the group has a byte position
AllHaveOffsets(rows) == \A i \in 1..Len(rows) : ~IsNa(rows[i]["cdx_offset"])

\* C11: in a group of records with the same url that all have a cdx_offset,
\* _remove_duplicate_urls keeps a record whose cdx_offset, read as a number, is
\* not smaller than that of any record of the group
DedupKeepsLargestOffset ==
    (result.op = "_remove_duplicate_urls" /\ result.exc = "none")
        => \A url \in UrlsOf(result.args[1].rows) :
              LET group == Group(result.args[1].rows, url)
                  kept == Group(result.val[1].rows, url)
              IN AllHaveOffsets(group)
                    => \A i \in 1..Len(group), k \in 1..Len(kept) :
                          ParseInt(kept[k]["cdx_offset"]) >= ParseInt(group[i]["cdx_offset"])

\* the same records, each as often
SameRecords(a, b) ==
    /\ Len(a) = Len(b)
    /\ \A r \in Range(a) \cup Range(b) :
          Cardinality({i \in 1..Len(a) : a[i] = r}) = Cardinality({i \in 1..Len(b) : b[i] = r})

\* C12: _remove_duplicate_urls applied to the dataframe that
\* _remove_duplicate_urls has just returned, returns the same records
DedupIsIdempotent ==
    (result.op = "_remove_duplicate_urls" /\ result.again)
        => /\ result.exc = "none"
           /\ SameRecords(result.val[1].rows, result.args[1].rows)

DedupAppliedTwice ==
    /\ result.op = "_remove_duplicate_urls"
    /\ result.again
    /\ Len(result.val[1].rows) = 2
    /\ result.val[1].rows # result.args[1].rows

\* the non-empty stripped lines of the previous list that are no stripped line
\* of the current list
DeletedUrls ==
    {Strip(fs[PreviousUrlsPath][i]) : i \in 1..Len(fs[PreviousUrlsPath])}
        \ ({Strip(fs[CurrentUrlsPath][i]) : i \in 1..Len(fs[CurrentUrlsPath])} \cup {<<>>})

IsDeleted(row) == row["status"] = <<"deleted">>

\* C14: generate_metadata called with both URL list arguments returns,
\* whichever of the two lists can be opened, and returns no deleted record when
\* one of them cannot
DeletionsNeverFatal ==
    (/\ result.op = "generate_metadata"
     /\ result.args[1] # <<>>
     /\ result.args[2] # <<>>)
        => /\ result.exc = "none"
           /\ (result.args[1] \notin DOMAIN fs \/ result.args[2] \notin DOMAIN fs)
                => \A i \in 1..Len(result.val[1].rows) : ~IsDeleted(result.val[1].rows[i])

\* ------------------------------------------------ HTML metadata extraction
\* the tags of the document of html_content, in document order
TagsOf(html) == html[1].children[1].children \o html[1].children[2].children[1].children

\* the allow-listed names the documents use, the attribute that names them
\* and their keys
FriendlyNames ==
    {<<"property", OgTitle, "og_title">>,
     <<"property", <<"og", ":", "description">>, "og_description">>,
     <<"property", <<"og", ":", "image", ":", "url">>, "og_image_url">>,
     <<"name", DcTitle, "DC.Title">>}

\* the positions of the meta tags named n[2] by the attribute n[1]
TagsNamed(tags, n) ==
    {i \in 1..Len(tags) : /\ tags[i].tag = "meta"
                          /\ n[1] \in DOMAIN tags[i].attrs
                          /\ tags[i].attrs[n[1]] = n[2]}

HasContent(tag) == "content" \in DOMAIN tag.attrs /\ Strip(tag.attrs["content"]) # <<>>

Min(S) == CHOOSE i \in S : \A j \in S : i <= j

\* C16: get_html_content_metadata returns a field for an allow-listed tag name
\* if and only if the document contains a meta tag of that name with non-empty
\* trimmed content; the key is the name with ':' replaced by '_', the value
\* the trimmed content of such a tag, and no other key is returned
HtmlFieldIffTagWithContent ==
    result.op = "get_html_content_metadata" =>
        /\ DOMAIN result.val \subseteq {n[3] : n \in FriendlyNames}
        /\ \A n \in FriendlyNames :
              LET with_content == {i \in TagsNamed(TagsOf(html_content), n) :
                                      HasContent(TagsOf(html_content)[i])}
              IN /\ n[3] \in DOMAIN result.val <=> with_content # {}
                 /\ n[3] \in DOMAIN result.val =>
                       \E i \in with_content :
                          result.val[n[3]] = Strip(TagsOf(html_content)[i].attrs["content"])

\* C16 (amended): the field is returned if and only if the first meta tag of
\* that name in the document has non-empty trimmed content, and its value is
\* the trimmed content of that first tag
HtmlFieldFromFirstTag ==
    result.op = "get_html_content_metadata" =>
        /\ DOMAIN result.val \subseteq {n[3] : n \in FriendlyNames}
        /\ \A n \in FriendlyNames :
              LET named == TagsNamed(TagsOf(html_content), n)
              IN IF named # {} /\ HasContent(TagsOf(html_content)[Min(named)])
                 THEN /\ n[3] \in DOMAIN result.val
                      /\ result.val[n[3]] =
                            Strip(TagsOf(html_content)[Min(named)].attrs["content"])
                 ELSE n[3] \notin DOMAIN result.val

\* a document with two og:title tags and a description to trim gave fields
HtmlFieldsOfRepeatedTag ==
    /\ result.op = "get_html_content_metadata"
    /\ \E n \in FriendlyNames : Cardinality(TagsNamed(TagsOf(html_content), n)) = 2
    /\ "og_title" \in DOMAIN result.val

\* ------------------------------------------------------- fulltext fields
\* the words of a comma-joined string
RECURSIVE SplitAtComma(_, _)
SplitAtComma(s, word) ==
    IF s = <<>> THEN (IF word = <<>> THEN <<>> ELSE <<word>>)
    ELSE IF Head(s) = "," THEN <<word>> \o SplitAtComma(Tail(s), <<>>)
    ELSE SplitAtComma(Tail(s), Append(word, Head(s)))

\* every newline, carriage return and tab of text is one space of normalized,
\* and nothing else differs
IsNormalized(text, normalized) ==
    /\ Len(normalized) = Len(text)
    /\ \A i \in 1..Len(text) :
          normalized[i] = IF text[i] \in {"\n", "\r", "\t"} THEN " " ELSE text[i]

\* keywords is the comma-joined first components, in order, of what the
\* extractor of the parser returns for the normalized text
IsKeywordsOf(keywords, text) ==
    /\ parser._keyword_extractor # <<>>
    /\ \E normalized \in {[i \in 1..Len(text) |->
                               IF text[i] \in {"\n", "\r", "\t"} THEN " " ELSE text[i]]} :
          \E extracted \in {extract_keywords(parser._keyword_extractor[1], normalized)} :
             /\ keywords # NaN
             /\ Len(SplitAtComma(keywords, <<>>)) = Len(extracted)
             /\ \A i \in 1..Len(extracted) :
                   SplitAtComma(keywords, <<>>)[i] = extracted[i][1]

\* C17: parse_fulltext_fields returns null for both fields when the text is
\* absent, whatever the flags; otherwise fulltext is the normalized text if
\* include_fulltext is set and null if not, and fulltext_keywords is the
\* comma-joined keywords of the normalized text, in extractor order and
\* without scores, if extract_fulltext_keywords is set and null if not
FulltextFieldsFollowFlags ==
    result.op = "parse_fulltext_fields" =>
        /\ result.exc = "none"
        /\ IF result.args[1] = NaN
           THEN result.val.fulltext = NaN /\ result.val.fulltext_keywords = NaN
           ELSE /\ IF result.args[2]
                   THEN IsNormalized(result.args[1], result.val.fulltext)
                   ELSE result.val.fulltext = NaN
                /\ IF result.args[3]
                   THEN IsKeywordsOf(result.val.fulltext_keywords, result.args[1])
                   ELSE result.val.fulltext_keywords = NaN

\* a text with a tab gave a normalized fulltext and two keywords
FulltextNormalizedWithTwoKeywords ==
    /\ result.op = "parse_fulltext_fields"
    /\ result.args[1] # NaN
    /\ result.args[2] /\ result.args[3]
    /\ \E i \in 1..Len(result.args[1]) : result.args[1][i] = "\t"
    /\ Len(SplitAtComma(result.val.fulltext_keywords, <<>>)) = 2

\* ------------------------------------------------------------ enrichment
\* the WebsiteRecord table the with block of the last generate_metadata call
\* iterated: the table its client holds
TableRows == result.wacz_client._html_websites_df[1].rows

\* C18: before reconciliation and dedup the enricher has exactly one record
\* per row of the WebsiteRecord table, in the order of the rows, each with
\* status active, the url of the row and the filename, title, offset and
\* length of the row as its cdx_ fields
EnricherOneRecordPerRow ==
    (result.op = "generate_metadata" /\ result.all_metadata # NaN) =>
        /\ result.wacz_client._html_websites_df # <<>>
        /\ Len(result.all_metadata) = Len(TableRows)
        /\ \A i \in 1..Len(TableRows) :
              /\ result.all_metadata[i]["status"] = <<"active">>
              /\ result.all_metadata[i]["url"] = TableRows[i]["url"]
              /\ result.all_metadata[i]["cdx_warc_filename"] = TableRows[i]["filename"]
              /\ result.all_metadata[i]["cdx_title"] = TableRows[i]["title"]
              /\ result.all_metadata[i]["cdx_offset"] = TableRows[i]["offset"]
              /\ result.all_metadata[i]["cdx_length"] = TableRows[i]["length"]

\* the enricher went through a table of rows of two URLs
EnrichedRowsOfTwoUrls ==
    /\ result.op = "generate_metadata"
    /\ result.all_metadata # NaN
    /\ Len(result.all_metadata) >= 2
    /\ \E i, j \in 1..Len(result.all_metadata) :
          result.all_metadata[i]["url"] # result.all_metadata[j]["url"]

\* C15: in every record set generate_metadata returns, the status of each
\* record is active or deleted, and a deleted record is null in every column
\* other than url and status
DeletedRecordsCarryUrlAndStatusOnly ==
    (result.op = "generate_metadata" /\ result.exc = "none") =>
        \A i \in 1..Len(result.val[1].rows) :
            /\ result.val[1].rows[i]["status"] \in {<<"active">>, <<"deleted">>}
            /\ result.val[1].rows[i]["status"] = <<"deleted">> =>
                  \A c \in result.val[1].cols \ {"url", "status"} :
                      result.val[1].rows[i][c] = NaN

\* a record set with a deleted record and an active record with a fulltext
\* and an og:title
DeletedAmongEnrichedRecords ==
    /\ result.op = "generate_metadata"
    /\ result.exc = "none"
    /\ \E i \in 1..Len(result.val[1].rows) : result.val[1].rows[i]["status"] = <<"deleted">>
    /\ \E i \in 1..Len(result.val[1].rows) :
          /\ result.val[1].rows[i]["status"] = <<"active">>
          /\ result.val[1].rows[i]["fulltext"] # NaN
          /\ result.val[1].rows[i]["og_title"] # NaN

\* C19: the record set generate_metadata returns is the one the flags of that
\* call determine, whatever the flags of earlier calls: every page of the
\* archives has a text, so an active record has a fulltext exactly when the
\* call asked for it and keywords exactly when the call asked for them
RecordsFollowFlagsOfTheCall ==
    (result.op = "generate_metadata" /\ result.exc = "none") =>
        \A i \in 1..Len(result.val[1].rows) :
            result.val[1].rows[i]["status"] = <<"active">> =>
                /\ result.val[1].rows[i]["fulltext"] # NaN <=> result.flags[1]
                /\ result.val[1].rows[i]["fulltext_keywords"] # NaN <=> result.flags[2]

\* ---------------------------------------------------------------- caching
\* a step that accesses a value already stored returns it and computes nothing
StoredValueReturned ==
    /\ (result'.op = "wacz_archive" /\ result'.exc = "none" /\ wacz_client._wacz_archive # 0) =>
          /\ result'.val = wacz_client._wacz_archive
          /\ wacz_client'.zipfiles = wacz_client.zipfiles
          /\ wacz_client'._wacz_archive = wacz_client._wacz_archive
    /\ (result'.op = "html_websites_df" /\ wacz_client._html_websites_df # <<>>) =>
          /\ result'.exc = "none"
          /\ result'.val = wacz_client._html_websites_df[1]
          /\ wacz_client'.reads = {}
          /\ wacz_client'.zipfiles = wacz_client.zipfiles
          /\ wacz_client'._html_websites_df = wacz_client._html_websites_df
    /\ (result'.op = "generate_metadata" /\ parser._websites_metadata # <<>>) =>
          /\ result'.exc = "none"
          /\ result'.val = parser._websites_metadata
          /\ result'.wacz_client = WACZClient
          /\ parser' = parser
    /\ (result'.op = "keyword_extractor" /\ parser._keyword_extractor # <<>>) =>
          /\ result'.val = parser._keyword_extractor[1]
          /\ parser' = parser

\* a step that computes a value stores it, and only an access stores a value
ComputedValueStored ==
    /\ (result'.op = "wacz_archive" /\ result'.exc = "none") =>
          wacz_client'._wacz_archive = result'.val
    /\ (result'.op = "html_websites_df" /\ result'.exc = "none") =>
          wacz_client'._html_websites_df = <<result'.val>>
    /\ (result'.op = "generate_metadata" /\ result'.exc = "none") =>
          parser'._websites_metadata = result'.val
    /\ result'.op = "keyword_extractor" => parser'._keyword_extractor = <<result'.val>>
    /\ (wacz_client._html_websites_df = <<>> /\ wacz_client'._html_websites_df # <<>>) =>
          result'.op = "html_websites_df"
    /\ (parser._websites_metadata = <<>> /\ parser'._websites_metadata # <<>>) =>
          result'.op = "generate_metadata"
    /\ (parser._keyword_extractor = <<>> /\ parser'._keyword_extractor # <<>>) =>
          result'.op \in {"keyword_extractor", "generate_metadata"}
    /\ parser'.extractors_built <= 1

\* C20: the archive handle, html_websites_df, the generated record set and the
\* keyword extractor are computed and stored by their first access, and every
\* later access returns the stored value without computing it again or
\* reading the archive; a second generate_metadata returns the record set of
\* the first
LazyValuesComputedOnce == [][StoredValueReturned /\ ComputedValueStored]_vars

\* every lazily computed value is stored and the last call returned a stored
\* record set
AllLazyValuesStored ==
    /\ wacz_client._wacz_archive # 0
    /\ wacz_client._html_websites_df # <<>>
    /\ parser._keyword_extractor # <<>>
    /\ result.op = "generate_metadata"
    /\ result.cached

\* ---------------------------------------------------------- serialization
\* the format a path names: the text after its last ".", the whole path when
\* it has none (whole_path) or no format then, with the surrounding
\* whitespace removed (stripped) or kept, compared without regard to case
FormatNamed(filepath, whole_path, stripped) ==
    LET dots == {i \in 1..Len(filepath) : filepath[i] = "."}
        last == IF dots = {} THEN 0 ELSE CHOOSE i \in dots : \A j \in dots : j <= i
        text == IF dots = {} /\ ~whole_path THEN <<>>
                ELSE SubSeq(filepath, last + 1, Len(filepath))
        ext == IF stripped THEN Strip(text) ELSE text
    IN IF ext \in {<<"xml">>, <<"XML">>} THEN "xml"
       ELSE IF ext \in {<<"jsonl">>, <<"Jsonl">>} THEN "jsonl"
       ELSE IF ext \in {<<"tsv">>, <<"TSV">>} THEN "tsv"
       ELSE IF ext \in {<<"csv">>, <<"Csv">>} THEN "csv"
       ELSE "unsupported"

\* what the last write call wrote, through a stream or not
DataWritten == IF result.files # <<>> THEN result.files[1].data ELSE result.streams[1].written

\* the serialization of the record set in a format
Serialized(format) ==
    CASE format = "xml" -> to_xml(websites_metadata_df)
      [] format = "jsonl" -> to_jsonl(websites_metadata_df)
      [] format = "tsv" -> to_csv(websites_metadata_df, "\t")
      [] format = "csv" -> to_csv(websites_metadata_df, ",")

WriteSelects(whole_path, stripped) ==
    result.op = "write" =>
        IF FormatNamed(result.args[1], whole_path, stripped) = "unsupported"
        THEN /\ result.exc = "NotImplementedError"
             /\ result.streams = <<>>
             /\ result.files = <<>>
        ELSE /\ result.exc = "none"
             /\ DataWritten = Serialized(FormatNamed(result.args[1], whole_path, stripped))

\* C21: write selects the format from the text after the last "." of the
\* path, compared case-insensitively; xml, jsonl, tsv and csv select their
\* serializer and every other extension raises NotImplementedError without
\* opening or writing a file
WriteSelectsFormatByExtension == WriteSelects(FALSE, FALSE)

\* C21 (amended): the text after the last "." is the whole path when the path
\* has no ".", and it is compared after its surrounding whitespace is removed
WriteSelectsFormatByStrippedLastPart == WriteSelects(TRUE, TRUE)

\* a path whose last part is an extension in mixed case was written
UpperCaseExtensionWritten ==
    /\ result.op = "write"
    /\ result.args[1] = <<"out", ".", "tar", ".", "Csv">>
    /\ result.exc = "none"

\* the first index from i on where tokens holds tok, 0 when there is none
IndexFrom(tokens, tok, i) ==
    LET found == {j \in i..Len(tokens) : tokens[j] = tok}
    IN IF found = {} THEN 0 ELSE CHOOSE j \in found : \A k \in found : j <= k

\* line-delimited text split at its line ends
RECURSIVE LinesOf(_)
LinesOf(tokens) ==
    IF tokens = <<>> THEN <<>>
    ELSE LET end == IndexFrom(tokens, "\n", 1)
         IN IF end = 0 THEN <<tokens>>
            ELSE <<SubSeq(tokens, 1, end - 1)>> \o LinesOf(SubSeq(tokens, end + 1, Len(tokens)))

\* the text of a JSON string literal whose opening quote is at i
JsonText(line, i) ==
    [k \in 1..(IndexFrom(line, "\"", i + 1) - i - 1) |->
        CASE line[i + k] = "\\\"" -> "\""
          [] line[i + k] = "\\\\" -> "\\"
          [] line[i + k] = "\\n" -> "\n"
          [] line[i + k] = "\\t" -> "\t"
          [] OTHER -> line[i + k]]

\* the members of the JSON object of a line from token i on, as <<key, value>>
\* pairs in their order; a member that is no string and not null is malformed
RECURSIVE JsonMembers(_, _)
JsonMembers(line, i) ==
    IF i > Len(line) THEN <<"malformed">>
    ELSE IF line[i] = "}" THEN IF i = Len(line) THEN <<>> ELSE <<"malformed">>
    ELSE IF line[i] = ", " THEN JsonMembers(line, i + 1)
    ELSE IF line[i] # "\"" \/ IndexFrom(line, "\"", i + 1) = 0 THEN <<"malformed">>
    ELSE LET colon == IndexFrom(line, "\"", i + 1) + 1
             key == JsonText(line, i)
         IN IF colon + 1 > Len(line) \/ line[colon] # ": " THEN <<"malformed">>
            ELSE IF line[colon + 1] = "null"
                 THEN <<<<key, NaN>>>> \o JsonMembers(line, colon + 2)
            ELSE IF line[colon + 1] # "\"" \/ IndexFrom(line, "\"", colon + 2) = 0
                 THEN <<"malformed">>
            ELSE <<<<key, JsonText(line, colon + 1)>>>>
                     \o JsonMembers(line, IndexFrom(line, "\"", colon + 2) + 1)

\* the JSON object of a line re-parsed
JsonObject(line) ==
    IF line = <<>> \/ line[1] # "{" THEN <<"malformed">> ELSE JsonMembers(line, 2)

\* the members a record has to re-parse to: its columns with its values
MembersOf(row, columns) == [c \in 1..Len(columns) |-> <<<<columns[c]>>, row[columns[c]]>>]

JsonlReparses(data, df) ==
    /\ Len(LinesOf(data)) = Len(df.rows)
    /\ \A i \in 1..Len(df.rows) : JsonObject(LinesOf(data)[i]) = MembersOf(df.rows[i], df.columns)

\* the sibling elements of an XML text, as [tag, inner] in their order; the
\* end tag of an element is the first end tag of its name
RECURSIVE Elements(_)
Elements(tokens) ==
    IF tokens = <<>> THEN <<>>
    ELSE IF Len(tokens) < 3 \/ tokens[1] # "<" THEN <<"malformed">>
    ELSE IF tokens[3] = " />"
         THEN <<[tag |-> tokens[2], inner |-> <<>>]>> \o Elements(SubSeq(tokens, 4, Len(tokens)))
    ELSE LET ends == {j \in 4..(Len(tokens) - 2) :
                         tokens[j] = "</" /\ tokens[j + 1] = tokens[2] /\ tokens[j + 2] = ">"}
         IN IF tokens[3] # ">" \/ ends = {} THEN <<"malformed">>
            ELSE LET end == CHOOSE j \in ends : \A k \in ends : j <= k
                 IN <<[tag |-> tokens[2], inner |-> SubSeq(tokens, 4, end - 1)]>>
                        \o Elements(SubSeq(tokens, end + 3, Len(tokens)))

\* the text of an element, its character references resolved
XmlText(inner) ==
    [k \in 1..Len(inner) |-> CASE inner[k] = "&amp;" -> "&"
                               [] inner[k] = "&lt;" -> "<"
                               [] inner[k] = "&gt;" -> ">"
                               [] OTHER -> inner[k]]

\* the children a record has to have: an element per column, in column order,
\* whose text is the string form of the value
CellsOf(row, columns) ==
    [c \in 1..Len(columns) |->
        [tag |-> columns[c],
         inner |-> IF row[columns[c]] = NaN THEN <<"None">> ELSE row[columns[c]]]]

XmlCells(record) == [c \in 1..Len(Elements(record.inner)) |->
                        [tag |-> Elements(record.inner)[c].tag,
                         inner |-> XmlText(Elements(record.inner)[c].inner)]]

XmlHoldsRecords(data, df) ==
    /\ Len(Elements(data)) = 1
    /\ Elements(data)[1].tag = "records"
    /\ Len(Elements(Elements(data)[1].inner)) = Len(df.rows)
    /\ \A i \in 1..Len(df.rows) :
          /\ Elements(Elements(data)[1].inner)[i].tag = "record"
          /\ XmlCells(Elements(Elements(data)[1].inner)[i]) = CellsOf(df.rows[i], df.columns)

\* C22: to_jsonl emits one JSON object per record, in record order, whose
\* keys are the columns and whose values re-parse to the same values, null as
\* null; to_xml emits one <record> per record under one <records> root with
\* one child per column, in column order, whose text is the string form of
\* the value, None for null
SerializationRoundTrip ==
    /\ result.op = "to_jsonl" => JsonlReparses(result.val, websites_metadata_df)
    /\ result.op = "to_xml" => XmlHoldsRecords(result.val, websites_metadata_df)

\* two records were serialized to JSON lines, the first with a null and the
\* second with the string None in the same column
NullAndNoneStringSerialized ==
    /\ result.op = "to_jsonl"
    /\ websites_metadata_df.columns = <<"url", "status">>
    /\ Len(websites_metadata_df.rows) = 2
    /\ websites_metadata_df.rows[1]["status"] = NaN
    /\ websites_metadata_df.rows[2]["status"] = <<"None">>

\* C30: for each supported format write opens exactly one writable stream for
\* the path through the transport and delivers the complete serialized record
\* set into that stream, and nothing is written to the path by another route
WriteDeliversThroughOneStream ==
    (result.op = "write" /\ result.exc = "none") =>
        /\ Len(result.streams) = 1
        /\ result.streams[1].filepath = result.args[1]
        /\ result.streams[1].mode = "wb"
        /\ result.streams[1].written = Serialized(FormatNamed(result.args[1], TRUE, TRUE))
        /\ result.files = <<>>

\* ---------------------------------------------------------- reconciliation
\* C29: every url that has a WebsiteRecord is in the record set
\* generate_metadata returns with status active and its provenance fields,
\* also when a deletion record for it is merged in before dedup; a url has
\* status deleted only when it has no WebsiteRecord
CrawledUrlsStayActive ==
    (result.op = "generate_metadata" /\ result.exc = "none" /\ result.all_metadata # NaN) =>
        /\ \A i \in 1..Len(TableRows) :
              \E k \in 1..Len(result.val[1].rows) :
                 /\ result.val[1].rows[k]["url"] = TableRows[i]["url"]
                 /\ result.val[1].rows[k]["status"] = <<"active">>
                 /\ result.val[1].rows[k]["cdx_warc_filename"] # NaN
                 /\ result.val[1].rows[k]["cdx_offset"] # NaN
        /\ \A k \in 1..Len(result.val[1].rows) :
              result.val[1].rows[k]["status"] = <<"deleted">> =>
                 \A i \in 1..Len(TableRows) : TableRows[i]["url"] # result.val[1].rows[k]["url"]

\* ------------------------------------------------- structural archive errors
BothManifestsAbsent == \A f \in 1..Len(PAGES_FILEPATHS) : PAGES_FILEPATHS[f] \notin DOMAIN wacz

IndexAbsent == CDX_INDEX_FILEPATH \notin DOMAIN wacz

\* a row of the WebsiteRecord table of the last call names a segment file that
\* is not in archive/
SegmentAbsent ==
    /\ result.wacz_client._html_websites_df # <<>>
    /\ \E i \in 1..Len(TableRows) :
          WARC_DIR \o <<"/">> \o TableRows[i]["filename"] \notin DOMAIN wacz

\* C23: when both manifest files are absent, or the index is absent, or a
\* segment file named by a WebsiteRecord is absent, generate_metadata raises,
\* returns no record set and stores none, so that a later call computes again
StructuralErrorAborts ==
    (result.op = "generate_metadata" /\ (BothManifestsAbsent \/ IndexAbsent \/ SegmentAbsent)) =>
        /\ result.exc = "WaczFileDoesNotExist"
        /\ result.val = <<>>
        /\ parser._websites_metadata = <<>>
        /\ ~result.cached

\* the second row of the table named a segment file that is absent, after the
\* first row had been read
SecondSegmentAbsent ==
    /\ result.op = "generate_metadata"
    /\ result.exc = "WaczFileDoesNotExist"
    /\ SegmentAbsent
    /\ Len(TableRows) >= 2
    /\ WARC_DIR \o <<"/">> \o TableRows[1]["filename"] \in DOMAIN wacz

\* ----------------------------------------------------------------- crawl
\* the crawl of the last call started in a container context
ContainerContext ==
    DOCKERENV \in DOMAIN result.fs_before \/ "AWS_EXECUTION_ENV" \in DOMAIN environ

\* C24: crawl() runs only in a container context (/.dockerenv exists or
\* AWS_EXECUTION_ENV is set): when neither holds it raises
\* RequiresContainerContextError and performs none of its steps; when either
\* holds the steps run
CrawlOnlyInContainer ==
    result.op = "crawl" =>
        IF ContainerContext
        THEN /\ result.exc # "RequiresContainerContextError"
             /\ result.steps # <<>>
             /\ result.steps[1] = "_copy_config_yaml_local"
        ELSE /\ result.exc = "RequiresContainerContextError"
             /\ result.steps = <<>>
             /\ fs = result.fs_before

\* a crawl ran to its end where only AWS_EXECUTION_ENV told of a container
CrawlRanInFargate ==
    /\ result.op = "crawl"
    /\ DOCKERENV \notin DOMAIN result.fs_before
    /\ "AWS_EXECUTION_ENV" \in DOMAIN environ
    /\ result.exc = "none"

\* the lines of a stream with their surrounding whitespace removed, the empty
\* ones left out
NonEmptyLines(lines) ==
    LET RECURSIVE Keep(_)
        Keep(i) == IF i > Len(lines) THEN <<>>
                   ELSE IF \A k \in 1..Len(lines[i]) : lines[i][k] \in Whitespace THEN Keep(i + 1)
                   ELSE <<Strip(lines[i])>> \o Keep(i + 1)
    IN Keep(1)

\* C25: a successful crawl() returns the exit code of the subprocess together
\* with the captured stdout lines and the captured stderr lines, stripped, in
\* emission order and without the empty lines
CrawlReturnsCodeAndOutput ==
    (result.op = "crawl" /\ result.exc = "none") =>
        result.val = <<result.args[1].returncode, NonEmptyLines(result.args[1].stdout),
                       NonEmptyLines(result.args[1].stderr)>>

\* C28: crawl() copies the config YAML, removes the previous crawl directory
\* if it exists, builds the command, launches and waits for the subprocess
\* and checks the WACZ file, in this order; a failure of the copy raises
\* ConfigYamlError and prevents the removal and the launch; with no file at
\* the WACZ path after the subprocess it raises WaczFileDoesNotExist for every
\* exit code, and it returns only when the file exists
CrawlStepsInOrder ==
    (result.op = "crawl" /\ ContainerContext) =>
        IF TestCrawler.config_yaml_filepath \notin DOMAIN result.fs_before
        THEN /\ result.exc = "ConfigYamlError"
             /\ result.steps = <<"_copy_config_yaml_local">>
             /\ fs = result.fs_before
        ELSE /\ result.steps =
                   <<"_copy_config_yaml_local", "_remove_previous_crawl">>
                       \o (IF crawl_output_dir(TestCrawler) \in DOMAIN result.fs_before
                           THEN <<"rmtree">> ELSE <<>>)
                       \o <<"_build_subprocess_command", "Popen",
                            "_handle_subprocess_logging", "wait", "os.path.exists">>
             /\ fs[DOCKER_CONTAINER_CONFIG_YAML_FILEPATH]
                   = result.fs_before[TestCrawler.config_yaml_filepath]
             /\ wacz_filepath(TestCrawler) \in DOMAIN fs <=> result.args[1].wacz # <<>>
             /\ IF wacz_filepath(TestCrawler) \in DOMAIN fs
                THEN result.exc = "none" /\ result.val = <<result.args[1].returncode>>
                ELSE result.exc = "WaczFileDoesNotExist"

\* a crawl that exited with 0 in a collection that held the WACZ file of an
\* earlier crawl left no WACZ file
CrawlWithoutWaczAfterEarlierCrawl ==
    /\ result.op = "crawl"
    /\ wacz_filepath(TestCrawler) \in DOMAIN result.fs_before
    /\ result.args[1].returncode = 0
    /\ result.exc = "WaczFileDoesNotExist"
    /\ "rmtree" \in Range(result.steps)

\* --------------------------------------------------------------- sitemaps
\* the bound in force in the last pages call: the one passed, else the one of
\* the constructor, else none
BoundInForce(passed, constructed) == IF passed # <<>> THEN passed ELSE constructed

\* the day of a date string: its place in the calendar
DayOf(date) == CHOOSE day \in 1..Len(Calendar) : Calendar[day] = date

\* page is in the range the bounds from and to allow
InRange(page, from, to) ==
    /\ from # <<>> => DayOf(from[1]) <= page.last_modified[1]
    /\ to # <<>> => page.last_modified[1] < DayOf(to[1])

\* C26: pages(from, to) returns exactly the parsed pages with
\* from <= last_modified < to, each bound applied only when given; a bound
\* passed to pages overrides that of the constructor; pages parses first when
\* the sitemaps were not parsed, and the parsed list holds no duplicate page
PagesFilteredByDates ==
    result.op = "pages" =>
        /\ result.exc = "none"
        /\ sitemaps_parser._pages # <<>>
        /\ result.parsed_before # <<>> => sitemaps_parser._pages = result.parsed_before
        /\ Range(sitemaps_parser._pages[1]) = DiscoveredPages(sitemaps_parser.sitemaps)
        /\ \A i, j \in 1..Len(sitemaps_parser._pages[1]) :
              sitemaps_parser._pages[1][i] = sitemaps_parser._pages[1][j] => i = j
        /\ result.val =
              SelectSeq(sitemaps_parser._pages[1],
                        LAMBDA page :
                            InRange(page,
                                    BoundInForce(result.args[1], sitemaps_parser.sitemap_from_date),
                                    BoundInForce(result.args[2], sitemaps_parser.sitemap_to_date)))

\* ---------------------------------------------------------------- harvest
\* the places of a call in the calls of the last harvest
PlacesOf(call) == {i \in 1..Len(result.events) : result.events[i] = call}

====
